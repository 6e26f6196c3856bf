------------------------------ MODULE PathsProofs ------------------------------
(***************************************************************************)
(* Theorems about path names, for all directories, paths and letters:      *)
(* absolute_path stays in its memory, its result has the one form the      *)
(* files are named by, and it is the absolute path of what was asked for.  *)
(* A loop that runs up to a zero depends on what the loop before it has    *)
(* left in memory; PathInv says that for each of them.  Follows says that  *)
(* the text in memory still comes to the components of the path: it may    *)
(* lose slashes, and a component together with the ".." behind it.         *)
(* The scratch buffer is at address 0, the path the caller passes          *)
(* at Input.                                                               *)
(***************************************************************************)
EXTENDS Paths, SequenceTheorems, FiniteSetTheorems, WellFoundedInduction, TLAPS

-----------------------------------------------------------------------------
(* absolute_path: texts in memory *)

\* What memory holds.
Cell == Chars \cup {NUL}

\* A text of e characters at address 0 that has the form of an absolute path,
\* but for a "..".
Text(m, e) ==
    /\ e \in Nat \ {0} /\ m[0] = "/" /\ m[e] = NUL
    /\ \A i \in 0 .. e - 1 : m[i] # NUL
    /\ \A i \in 0 .. e - 2 : ~(m[i] = "/" /\ m[i + 1] = "/")

\* A ".." behind the "/" at i.
UpAt(m, i) ==
    m[i] = "/" /\ m[i + 1] = "." /\ m[i + 2] = "." /\ m[i + 3] \in {"/", NUL}

Memories == [0 .. MemSize - 1 -> Cell]

LEMMA PathNumbers ==
    ASSUME PathsAssumption
    PROVE  /\ MaxLen \in Nat /\ Input \in Nat /\ MemSize \in Nat /\ Input + MaxLen < MemSize
           /\ NUL \notin Chars /\ NUL # "/" /\ NUL # "." /\ "/" # "."
           /\ "/" \in Cell /\ NUL \in Cell
BY DEF PathsAssumption, NUL, Chars, Cell

\* StringAt finds the NUL that is there.
LEMMA StringIs ==
    ASSUME NEW a \in Nat, NEW e \in Nat, a <= e, e < MemSize, MemSize \in Nat,
           mem[e] = NUL, \A i \in a .. e - 1 : mem[i] # NUL
    PROVE  StringAt(a) = [k \in 1 .. e - a |-> mem[a + k - 1]]
<1> DEFINE Q(x) == mem[x] = NUL /\ \A i \in a .. x - 1 : mem[i] # NUL
           end == CHOOSE x \in a .. MemSize - 1 : Q(x)
<1>1. e \in a .. MemSize - 1 /\ Q(e)
  OBVIOUS
<1>2. end \in a .. MemSize - 1 /\ Q(end)
  <2> HIDE DEF Q
  <2> QED
    BY <1>1
<1>3. end = e
  <2>1. ~(end < e)
    BY <1>1, <1>2
  <2>2. ~(e < end)
    BY <1>1, <1>2
  <2> HIDE DEF end
  <2> QED
    BY <1>2, <2>1, <2>2
<1>4. StringAt(a) = [k \in 1 .. end - a |-> mem[a + k - 1]]
  BY DEF StringAt
<1> HIDE DEF end
<1> QED
  BY <1>3, <1>4

\* The cells that Stored changes.
LEMMA StoredCells ==
    ASSUME MemSize \in Nat, NEW m \in Memories, NEW n \in Nat, NEW a \in Nat, a + n < MemSize,
           NEW s, s \in [1 .. n -> Cell], NUL \in Cell
    PROVE  /\ Stored(m, s, a) \in Memories
           /\ \A i \in 0 .. MemSize - 1 :
                Stored(m, s, a)[i] = IF i \in a .. a + n - 1 THEN s[i - a + 1]
                                     ELSE IF i = a + n THEN NUL ELSE m[i]
<1>1. Len(s) = n
  OBVIOUS
<1>2. DOMAIN m = 0 .. MemSize - 1
  BY DEF Memories
<1>3. Stored(m, s, a) = [i \in 0 .. MemSize - 1 |->
                         IF i \in a .. a + n - 1 THEN s[i - a + 1]
                         ELSE IF i = a + n THEN NUL ELSE m[i]]
  BY <1>1, <1>2 DEF Stored
<1>4. \A i \in 0 .. MemSize - 1 :
         (IF i \in a .. a + n - 1 THEN s[i - a + 1] ELSE IF i = a + n THEN NUL ELSE m[i]) \in Cell
  <2> SUFFICES ASSUME NEW i \in 0 .. MemSize - 1
               PROVE  (IF i \in a .. a + n - 1 THEN s[i - a + 1] ELSE IF i = a + n THEN NUL ELSE m[i]) \in Cell
    OBVIOUS
  <2>1. CASE i \in a .. a + n - 1
    <3>1. i - a + 1 \in 1 .. n
      BY <2>1
    <3> QED
      BY <2>1, <3>1
  <2>2. CASE i \notin a .. a + n - 1
    BY <2>2 DEF Memories
  <2> QED
    BY <2>1, <2>2
<1> QED
  BY <1>3, <1>4 DEF Memories

\* A component is taken out: what is behind the ".." moves to where the
\* component began.
LEMMA CutText ==
    ASSUME NEW m, NEW w, NEW e, NEW b \in Nat, NEW s \in Nat, Text(m, e), b <= s, s + 3 < e,
           m[b] = "/", m[s + 3] = "/", NUL # "/",
           \A i \in 0 .. b - 1 : w[i] = m[i],
           \A i \in 0 .. e - s - 3 : w[b + i] = m[s + 3 + i]
    PROVE  Text(w, b + (e - s - 3))
<1> DEFINE z == b + (e - s - 3)
<1>1. e \in Nat /\ z \in Nat \ {0}
  BY DEF Text
<1>2. w[b] = "/" /\ w[z] = NUL
  <2>1. 0 \in 0 .. e - s - 3 /\ e - s - 3 \in 0 .. e - s - 3
    BY <1>1
  <2>2. w[b + 0] = m[s + 3 + 0] /\ w[b + (e - s - 3)] = m[s + 3 + (e - s - 3)]
    BY <2>1
  <2>3. b + 0 = b /\ s + 3 + 0 = s + 3 /\ s + 3 + (e - s - 3) = e
    BY <1>1
  <2> QED
    BY <2>2, <2>3 DEF Text
<1>3. w[0] = "/"
  <2>1. CASE b = 0
    BY <1>2, <2>1
  <2>2. CASE b # 0
    BY <2>2 DEF Text
  <2> QED
    BY <2>1, <2>2
<1>4. \A i \in 0 .. b : w[i] = m[i]
  BY <1>2
<1>5. \A i \in b .. z : i - b + (s + 3) \in s + 3 .. e /\ w[i] = m[i - b + (s + 3)]
  <2> SUFFICES ASSUME NEW i \in b .. z
               PROVE  i - b + (s + 3) \in s + 3 .. e /\ w[i] = m[i - b + (s + 3)]
    OBVIOUS
  <2>1. PICK k \in 0 .. e - s - 3 : k = i - b
    BY <1>1
  <2>2. w[b + k] = m[s + 3 + k]
    OBVIOUS
  <2>3. b + k = i /\ s + 3 + k = i - b + (s + 3)
    BY <1>1, <2>1
  <2> QED
    BY <1>1, <2>2, <2>3
<1>6. \A i \in 0 .. z - 1 : w[i] # NUL
  <2> SUFFICES ASSUME NEW i \in 0 .. z - 1 PROVE w[i] # NUL
    OBVIOUS
  <2>1. CASE i < b
    <3>1. w[i] = m[i] /\ i \in 0 .. e - 1
      BY <1>1, <2>1
    <3> QED
      BY <3>1 DEF Text
  <2>2. CASE i >= b
    <3>1. w[i] = m[i - b + (s + 3)] /\ i - b + (s + 3) \in 0 .. e - 1
      BY <1>1, <1>5, <2>2
    <3> QED
      BY <3>1 DEF Text
  <2> QED
    BY <2>1, <2>2
<1>7. \A i \in 0 .. z - 2 : ~(w[i] = "/" /\ w[i + 1] = "/")
  <2> SUFFICES ASSUME NEW i \in 0 .. z - 2 PROVE ~(w[i] = "/" /\ w[i + 1] = "/")
    OBVIOUS
  <2>1. CASE i < b
    <3>1. w[i] = m[i] /\ w[i + 1] = m[i + 1] /\ i \in 0 .. e - 2
      BY <1>1, <1>4, <2>1
    <3> QED
      BY <3>1 DEF Text
  <2>2. CASE i >= b
    <3> DEFINE j == i - b + (s + 3)
    <3>1. w[i] = m[j] /\ w[i + 1] = m[i + 1 - b + (s + 3)] /\ j \in 0 .. e - 2
      BY <1>1, <1>5, <2>2
    <3>2. i + 1 - b + (s + 3) = j + 1
      OBVIOUS
    <3> HIDE DEF j
    <3>3. w[i + 1] = m[j + 1]
      BY <3>1, <3>2
    <3> QED
      BY <3>1, <3>3 DEF Text
  <2> QED
    BY <2>1, <2>2
<1> HIDE DEF z
<1>8. Text(w, z)
  BY <1>1, <1>2, <1>3, <1>6, <1>7 DEF Text
<1> QED
  BY <1>8 DEF z

\* Before is at a "/", wherever the scan is.
LEMMA GreatestBelow ==
    ASSUME NEW S, S \subseteq Nat, S # {}, NEW b \in Nat, \A x \in S : x <= b
    PROVE  \E x \in S : \A y \in S : x >= y
<1> DEFINE R == OpToRel(<, Nat)
           T == {n \in Nat : \E x \in S : n = b - x}
<1>1. IsWellFoundedOn(R, Nat)
  BY NatLessThanWellFounded
<1>2. \A x, y \in Nat : x < y => <<x, y>> \in R
  BY DEF OpToRel
<1>3. T \subseteq Nat /\ \A x \in S : b - x \in T
  OBVIOUS
<1> HIDE DEF R
<1>4. PICK t \in T : \A u \in T : ~ (<<u, t>> \in R)
  <2> HIDE DEF T
  <2>1. T # {}
    BY <1>3
  <2> QED
    BY <1>1, <1>3, <2>1, WFMin
<1>5. \A u \in T : t <= u
  <2> HIDE DEF T
  <2>1. \A u \in T : ~(u < t)
    BY <1>2, <1>3, <1>4
  <2> QED
    BY <1>3, <2>1
<1>6. PICK x \in S : t = b - x
  OBVIOUS
<1>7. \A y \in S : b - x <= b - y
  <2> HIDE DEF T
  <2> QED
    BY <1>3, <1>5, <1>6
<1> QED
  BY <1>7

LEMMA BeforeIs ==
    ASSUME src \in Nat, mem[0] = "/"
    PROVE  Before \in 0 .. src /\ mem[Before] = "/"
<1> DEFINE S == {0} \cup {i \in 0 .. src - 1 : mem[i] = "/"}
<1>1. S \subseteq Nat /\ S # {} /\ (\A x \in S : x <= src) /\ (\A x \in S : mem[x] = "/")
  OBVIOUS
<1>2. Before = Max(S)
  BY DEF Before
<1> HIDE DEF S
<1>3. Max(S) \in S
  BY <1>1, GreatestBelow DEF Max
<1>4. PICK x \in S : x = Before
  BY <1>2, <1>3
<1>5. x \in Nat /\ x <= src /\ mem[x] = "/"
  BY <1>1
<1> QED
  BY <1>4, <1>5

\* Before is the last slash in front of src; only at the root it is src itself.
LEMMA BeforeLast ==
    ASSUME src \in Nat, mem[0] = "/"
    PROVE  /\ Before \in 0 .. src /\ mem[Before] = "/" /\ (Before = src => src = 0)
           /\ \A i \in Before + 1 .. src - 1 : mem[i] # "/"
<1> DEFINE S == {0} \cup {i \in 0 .. src - 1 : mem[i] = "/"}
<1>1. S \subseteq Nat /\ S # {} /\ (\A x \in S : x <= src) /\ (\A x \in S : x = src => src = 0)
  OBVIOUS
<1>2. Before = Max(S)
  BY DEF Before
<1>3. \A i \in 1 .. src - 1 : mem[i] = "/" => i \in S
  OBVIOUS
<1> HIDE DEF S
<1>4. Max(S) \in S /\ \A y \in S : Max(S) >= y
  BY <1>1, GreatestBelow DEF Max
<1>5. Before \in 0 .. src /\ mem[Before] = "/"
  BY BeforeIs
<1>6. ASSUME NEW i \in Before + 1 .. src - 1, mem[i] = "/" PROVE FALSE
  <2>1. i \in S
    BY <1>3, <1>5, <1>6
  <2>2. Before >= i
    BY <1>2, <1>4, <2>1
  <2> QED
    BY <1>5, <2>2
<1>7. Before = src => src = 0
  BY <1>1, <1>2, <1>4
<1> QED
  BY <1>5, <1>6, <1>7

-----------------------------------------------------------------------------
(* absolute_path: the invariant of each of its loops *)

\* The result has room for the directory and the path.
Room == Len(cwd) + Len(path)

\* Where the path's NUL is.
PathEnd == Input + Len(path)

PathUnread == \A i \in src .. PathEnd : mem[i] = NUL <=> i = PathEnd

PathStarts == src = Input /\ dst = 0 /\ last = NUL /\ PathUnread

\* The copy is never ahead of what is still to be read.
PathCopied ==
    /\ src \in Nat /\ dst \in Nat /\ src <= PathEnd /\ dst <= src
    /\ dst + (PathEnd - src) <= Room
    /\ last = NUL /\ PathUnread
    /\ \A i \in 0 .. dst - 1 : mem[i] # NUL
    /\ IF dst = 0 THEN mem[src] = "/" ELSE mem[0] = "/"

\* e is where the copy ends.
Collapsing(e) ==
    /\ e \in Nat /\ src \in Nat /\ dst \in Nat /\ e <= Room /\ src <= e /\ dst <= src
    /\ mem[0] = "/" /\ mem[e] = NUL
    /\ \A i \in 0 .. dst - 1 : mem[i] # NUL
    /\ \A i \in src .. e - 1 : mem[i] # NUL
    /\ \A i \in 0 .. dst - 2 : ~(mem[i] = "/" /\ mem[i + 1] = "/")
    /\ dst = 0 => src = 0 /\ last = NUL
    /\ dst # 0 => last = mem[dst - 1]

\* In front of src there is no ".." any more.
Scanned(e) ==
    /\ Text(mem, e) /\ e <= Room /\ src \in 0 .. e /\ dst \in 0 .. Room
    /\ \A i \in 0 .. src - 1 : ~UpAt(mem, i)

Finished(e) ==
    /\ Text(mem, e) /\ e <= Room /\ src \in 0 .. Room /\ dst \in 0 .. Room
    /\ \A i \in 0 .. e - 1 : ~UpAt(mem, i)

Called ==
    /\ cwd \in Cwds /\ path \in Seq(Chars) /\ Len(path) <= MaxLen
    /\ mem \in Memories /\ last \in Cell

PathInv ==
    /\ Called
    /\ \/ pc = "start" /\ PathStarts
       \/ pc = "copy" /\ PathCopied
       \/ pc = "collapse" /\ \E e \in Nat : Collapsing(e)
       \/ pc = "scan" /\ \E e \in Nat : Scanned(e)
       \/ pc = "done" /\ \E e \in Nat : Finished(e)

LEMMA CalledWith ==
    ASSUME PathsAssumption, Apart, Called
    PROVE  /\ Len(cwd) \in Nat \ {0} /\ Len(cwd) <= Input /\ cwd[1] = "/"
           /\ \A k \in 1 .. Len(cwd) : cwd[k] \in Cell /\ cwd[k] # NUL
           /\ Len(path) \in Nat /\ Room \in Nat /\ Room < MemSize
           /\ PathEnd \in Nat /\ PathEnd < MemSize /\ Room <= PathEnd
<1>1. cwd \in Seq(Chars) /\ cwd # <<>> /\ cwd[1] = "/"
  BY DEF Called, PathsAssumption
<1>2. Len(cwd) \in Nat \ {0} /\ Len(cwd) <= Input
  BY <1>1 DEF Called, Apart
<1>3. Len(path) \in Nat /\ Len(path) <= MaxLen
  BY DEF Called
<1>4. \A k \in 1 .. Len(cwd) : cwd[k] \in Cell /\ cwd[k] # NUL
  BY <1>1, PathNumbers DEF Cell
<1>5. MaxLen \in Nat /\ Input \in Nat /\ MemSize \in Nat /\ Input + MaxLen < MemSize
  BY PathNumbers
<1> QED
  BY <1>1, <1>2, <1>3, <1>4, <1>5 DEF Room, PathEnd

\* What the patterns at src say of the cells.
LEMMA PatternsAt ==
    ASSUME src \in Nat, MemSize \in Nat
    PROVE  /\ At(src, <<".", "/">>) => mem[src] = "." /\ mem[src + 1] = "/"
           /\ At(src, <<"/", ".", ".", "/">>) =>
                mem[src] = "/" /\ mem[src + 1] = "." /\ mem[src + 2] = "." /\ mem[src + 3] = "/"
           /\ At(src, <<"/", ".", ".", NUL>>) =>
                /\ mem[src] = "/" /\ mem[src + 1] = "." /\ mem[src + 2] = "."
                /\ mem[src + 3] = NUL
           /\ UpAt(mem, src) /\ src + 3 < MemSize => UpHere
<1> DEFINE two == <<".", "/">>
           up  == <<"/", ".", ".", "/">>
           fin == <<"/", ".", ".", NUL>>
<1>1. Len(two) = 2 /\ Len(up) = 4 /\ Len(fin) = 4
  OBVIOUS
<1>2. At(src, two) => mem[src + 1 - 1] = two[1] /\ mem[src + 2 - 1] = two[2]
  <2> HIDE DEF two
  <2> QED
    BY <1>1 DEF At
<1>3. At(src, up) => \A k \in 1 .. 4 : mem[src + k - 1] = up[k]
  <2> HIDE DEF up
  <2> QED
    BY <1>1 DEF At
<1>4. At(src, fin) => \A k \in 1 .. 4 : mem[src + k - 1] = fin[k]
  <2> HIDE DEF fin
  <2> QED
    BY <1>1 DEF At
<1>5. /\ \A s : (\A k \in 1 .. 4 : mem[src + k - 1] = s[k]) =>
                mem[src] = s[1] /\ mem[src + 1] = s[2] /\ mem[src + 2] = s[3] /\ mem[src + 3] = s[4]
  <2> SUFFICES ASSUME NEW s, \A k \in 1 .. 4 : mem[src + k - 1] = s[k]
               PROVE  mem[src] = s[1] /\ mem[src + 1] = s[2] /\ mem[src + 2] = s[3] /\ mem[src + 3] = s[4]
    OBVIOUS
  <2>1. 1 \in 1 .. 4 /\ 2 \in 1 .. 4 /\ 3 \in 1 .. 4 /\ 4 \in 1 .. 4
    OBVIOUS
  <2>2. mem[src + 1 - 1] = s[1] /\ mem[src + 2 - 1] = s[2] /\ mem[src + 3 - 1] = s[3] /\ mem[src + 4 - 1] = s[4]
    BY <2>1
  <2>3. src + 1 - 1 = src /\ src + 2 - 1 = src + 1 /\ src + 3 - 1 = src + 2 /\ src + 4 - 1 = src + 3
    OBVIOUS
  <2> QED
    BY <2>2, <2>3
<1>6. At(src, up) =>
        mem[src] = "/" /\ mem[src + 1] = "." /\ mem[src + 2] = "." /\ mem[src + 3] = "/"
  BY <1>3, <1>5
<1>7. At(src, fin) =>
        mem[src] = "/" /\ mem[src + 1] = "." /\ mem[src + 2] = "." /\ mem[src + 3] = NUL
  BY <1>4, <1>5
<1>8. ASSUME UpAt(mem, src), src + 3 < MemSize
      PROVE  UpHere
  <2>1. \A k \in 1 .. 4 : src + k - 1 < MemSize
    BY <1>8
  <2>2. ASSUME NEW s, Len(s) = 4,
               mem[src] = s[1] /\ mem[src + 1] = s[2] /\ mem[src + 2] = s[3] /\ mem[src + 3] = s[4]
        PROVE  At(src, s)
    <3>1. \A k \in 1 .. 4 : mem[src + k - 1] = s[k]
      BY <2>2
    <3> QED
      BY <2>1, <2>2, <3>1 DEF At
  <2>3. mem[src + 3] = "/" => At(src, up)
    BY <1>8, <2>2 DEF UpAt
  <2>4. mem[src + 3] = NUL => At(src, fin)
    BY <1>8, <2>2 DEF UpAt
  <2> QED
    BY <1>8, <2>3, <2>4 DEF UpAt, UpHere
<1> QED
  BY <1>2, <1>6, <1>7, <1>8

-----------------------------------------------------------------------------
(* absolute_path: the steps *)

\* One cell is written.
LEMMA CellWritten ==
    ASSUME MemSize \in Nat, mem \in Memories, NEW d \in 0 .. MemSize - 1, NEW v \in Cell,
           mem' = [mem EXCEPT ![d] = v]
    PROVE  /\ mem' \in Memories /\ mem'[d] = v
           /\ \A i \in 0 .. MemSize - 1 : i # d => mem'[i] = mem[i]
BY DEF Memories

LEMMA PathBegins ==
    ASSUME PathsAssumption, Apart, Init
    PROVE  PathInv
<1>1. /\ cwd \in Cwds /\ src = Input /\ dst = 0 /\ last = NUL /\ pc = "start"
      /\ mem = Stored([i \in 0 .. MemSize - 1 |-> NUL], path, Input)
  BY DEF Init
<1>2. PICK n \in 0 .. MaxLen : path \in [1 .. n -> Chars]
  BY DEF Init
<1>3. MaxLen \in Nat /\ Input \in Nat /\ MemSize \in Nat /\ Input + MaxLen < MemSize
  BY PathNumbers
<1>4. n \in Nat /\ n <= MaxLen /\ Len(path) = n /\ path \in Seq(Chars) /\ Input + n < MemSize
  BY <1>2, <1>3
<1> DEFINE blank == [i \in 0 .. MemSize - 1 |-> NUL]
<1>5. blank \in Memories /\ path \in [1 .. n -> Cell] /\ NUL \in Cell
  BY <1>2, PathNumbers DEF Memories, Cell
<1>6. mem = Stored(blank, path, Input)
  BY <1>1
<1> HIDE DEF blank
<1>7. /\ mem \in Memories
      /\ \A i \in 0 .. MemSize - 1 :
           mem[i] = IF i \in Input .. Input + n - 1 THEN path[i - Input + 1]
                    ELSE IF i = Input + n THEN NUL ELSE blank[i]
  BY <1>3, <1>4, <1>5, <1>6, StoredCells
<1>8. \A i \in Input .. Input + n : mem[i] = NUL <=> i = Input + n
  <2> SUFFICES ASSUME NEW i \in Input .. Input + n
               PROVE  mem[i] = NUL <=> i = Input + n
    OBVIOUS
  <2>1. i \in 0 .. MemSize - 1
    BY <1>3, <1>4
  <2>2. CASE i = Input + n
    BY <1>3, <1>4, <1>7, <2>1, <2>2
  <2>3. CASE i # Input + n
    <3>1. i \in Input .. Input + n - 1 /\ i - Input + 1 \in 1 .. n
      BY <1>3, <1>4, <2>3
    <3>2. mem[i] = path[i - Input + 1]
      BY <1>7, <2>1, <3>1
    <3>3. path[i - Input + 1] \in Chars
      BY <1>2, <3>1
    <3> QED
      BY <2>3, <3>2, <3>3, PathNumbers
  <2> QED
    BY <2>2, <2>3
<1>9. Called
  BY <1>1, <1>4, <1>7, PathNumbers DEF Called
<1>10. PathStarts
  BY <1>1, <1>4, <1>8 DEF PathStarts, PathUnread, PathEnd
<1> QED
  BY <1>1, <1>9, <1>10 DEF PathInv

LEMMA PathStartStep ==
    ASSUME PathsAssumption, Apart, Called, PathStarts, Start
    PROVE  Called' /\ PathCopied' /\ pc' = "copy"
<1> DEFINE p == IF At(src, <<".", "/">>) THEN src + 2 ELSE src
<1>1. /\ Len(cwd) \in Nat \ {0} /\ Len(cwd) <= Input /\ cwd[1] = "/"
      /\ \A k \in 1 .. Len(cwd) : cwd[k] \in Cell /\ cwd[k] # NUL
      /\ Len(path) \in Nat /\ Room \in Nat /\ Room < MemSize
      /\ PathEnd \in Nat /\ PathEnd < MemSize /\ Room <= PathEnd
  BY CalledWith
<1>2. Input \in Nat /\ MemSize \in Nat
  BY PathNumbers
<1>3. /\ src = Input /\ last = NUL /\ dst = 0
      /\ \A i \in src .. PathEnd : mem[i] = NUL <=> i = PathEnd
  BY DEF PathStarts, PathUnread
<1>4. p \in Nat /\ src <= p /\ p <= PathEnd
  <2>1. CASE At(src, <<".", "/">>)
    <3>1. mem[src] # NUL /\ mem[src + 1] # NUL
      BY <1>2, <1>3, <2>1, PatternsAt, PathNumbers
    <3>2. src # PathEnd
      BY <1>1, <1>2, <1>3, <3>1 DEF PathEnd
    <3>3. src + 1 <= PathEnd
      BY <1>1, <1>2, <1>3, <3>2 DEF PathEnd
    <3>4. src + 1 # PathEnd
      BY <1>1, <1>2, <1>3, <3>1, <3>3
    <3> QED
      BY <1>1, <1>2, <1>3, <2>1, <3>3, <3>4
  <2>2. CASE ~At(src, <<".", "/">>)
    BY <1>1, <1>2, <1>3, <2>2 DEF PathEnd
  <2> QED
    BY <2>1, <2>2
<1>5. /\ src' = p /\ pc' = "copy" /\ UNCHANGED <<last, cwd, path>>
      /\ \/ mem[p] = "/" /\ UNCHANGED <<mem, dst>>
         \/ /\ mem[p] # "/" /\ dst' = Len(cwd)
            /\ mem' = [i \in DOMAIN mem |-> IF i < Len(cwd) THEN cwd[i + 1] ELSE mem[i]]
  BY DEF Start, BehindCwd
<1>6. Room' = Room /\ PathEnd' = PathEnd
  BY <1>5 DEF Room, PathEnd
<1> HIDE DEF p
<1>7. CASE mem[p] = "/"
  <2>1. mem' = mem /\ dst' = 0
    BY <1>3, <1>5, <1>7
  <2>2. Called'
    BY <1>5, <2>1 DEF Called
  <2>3. 0 + (PathEnd - p) <= Room
    BY <1>1, <1>2, <1>3, <1>4 DEF Room, PathEnd
  <2>4. PathUnread'
    BY <1>2, <1>3, <1>4, <1>5, <1>6, <2>1 DEF PathUnread
  <2> QED
    BY <1>3, <1>4, <1>5, <1>6, <1>7, <2>1, <2>2, <2>3, <2>4 DEF PathCopied
<1>8. CASE mem[p] # "/"
  <2>1. dst' = Len(cwd) /\ mem' = [i \in 0 .. MemSize - 1 |-> IF i < Len(cwd) THEN cwd[i + 1] ELSE mem[i]]
    BY <1>5, <1>8 DEF Called, Memories
  <2>2. \A i \in 0 .. MemSize - 1 : i < Len(cwd) => i + 1 \in 1 .. Len(cwd) /\ cwd[i + 1] \in Cell /\ cwd[i + 1] # NUL
    BY <1>1
  <2>3. mem' \in Memories
    BY <2>1, <2>2 DEF Called, Memories
  <2>4. \A i \in Len(cwd) .. MemSize - 1 : mem'[i] = mem[i]
    BY <1>1, <2>1
  <2>5. \A i \in 0 .. Len(cwd) - 1 : mem'[i] = cwd[i + 1] /\ mem'[i] # NUL
    <3> SUFFICES ASSUME NEW i \in 0 .. Len(cwd) - 1 PROVE mem'[i] = cwd[i + 1] /\ cwd[i + 1] # NUL
      BY <1>1
    <3>1. i \in 0 .. MemSize - 1 /\ i < Len(cwd)
      BY <1>1, <1>2, <1>3 DEF PathEnd
    <3> QED
      BY <2>1, <2>2, <3>1
  <2>6. mem'[0] = "/"
    <3>1. 0 \in 0 .. Len(cwd) - 1 /\ 0 + 1 = 1
      BY <1>1
    <3> QED
      BY <1>1, <2>5, <3>1
  <2>7. Called'
    BY <1>5, <2>3 DEF Called
  <2>8. Len(cwd) + (PathEnd - p) <= Room /\ Len(cwd) <= p
    BY <1>1, <1>2, <1>3, <1>4 DEF Room, PathEnd
  <2>9. PathUnread'
    <3> SUFFICES ASSUME NEW i \in p .. PathEnd PROVE mem'[i] = NUL <=> i = PathEnd
      BY <1>5, <1>6 DEF PathUnread
    <3>1. i \in src .. PathEnd /\ i \in Len(cwd) .. MemSize - 1
      BY <1>1, <1>2, <1>3, <1>4, <2>8
    <3> QED
      BY <1>3, <2>4, <3>1
  <2> QED
    BY <1>1, <1>3, <1>4, <1>5, <1>6, <2>1, <2>5, <2>6, <2>7, <2>8, <2>9 DEF PathCopied
<1> QED
  BY <1>5, <1>7, <1>8

LEMMA CopyStep ==
    ASSUME PathsAssumption, Apart, Called, PathCopied, CopyInput
    PROVE  /\ Called'
           /\ \/ pc' = "copy" /\ PathCopied'
              \/ pc' = "collapse" /\ \E e \in Nat : Collapsing(e)'
<1>1. /\ Len(path) \in Nat /\ Room \in Nat /\ Room < MemSize
      /\ PathEnd \in Nat /\ PathEnd < MemSize /\ Room <= PathEnd
  BY CalledWith
<1>2. Input \in Nat /\ MemSize \in Nat /\ NUL # "/"
  BY PathNumbers
<1>3. /\ src \in Nat /\ dst \in Nat /\ src <= PathEnd /\ dst <= src
      /\ dst + (PathEnd - src) <= Room /\ last = NUL
      /\ \A i \in src .. PathEnd : mem[i] = NUL <=> i = PathEnd
      /\ \A i \in 0 .. dst - 1 : mem[i] # NUL
      /\ IF dst = 0 THEN mem[src] = "/" ELSE mem[0] = "/"
  BY DEF PathCopied, PathUnread
<1>4. mem \in Memories /\ dst \in 0 .. MemSize - 1 /\ mem[src] \in Cell
  BY <1>1, <1>2, <1>3 DEF Called, Memories
<1>5. mem' = [mem EXCEPT ![dst] = mem[src]] /\ UNCHANGED <<last, cwd, path>>
  BY DEF CopyInput
<1>6. /\ mem' \in Memories /\ mem'[dst] = mem[src]
      /\ \A i \in 0 .. MemSize - 1 : i # dst => mem'[i] = mem[i]
  BY <1>2, <1>4, <1>5, CellWritten
<1>7. Called' /\ Room' = Room /\ PathEnd' = PathEnd
  BY <1>5, <1>6 DEF Called, Room, PathEnd
<1>8. \A i \in 0 .. dst - 1 : mem'[i] = mem[i]
  BY <1>1, <1>2, <1>3, <1>6
<1>9. CASE mem[src] = NUL
  <2>1. pc' = "collapse" /\ src' = 0 /\ dst' = 0
    BY <1>9 DEF CopyInput
  <2>2. dst # 0 /\ src = PathEnd
    BY <1>1, <1>2, <1>3, <1>9
  <2>3. mem'[0] = "/" /\ mem'[dst] = NUL
    BY <1>3, <1>6, <1>8, <1>9, <2>2
  <2>4. \A i \in 0 .. dst - 1 : mem'[i] # NUL
    BY <1>3, <1>8
  <2>5. dst <= Room
    BY <1>1, <1>3, <2>2
  <2> DEFINE e == dst
  <2> HIDE DEF e
  <2>6. /\ e \in Nat /\ e <= Room' /\ mem'[e] = NUL
        /\ \A i \in 0 .. e - 1 : mem'[i] # NUL
    BY <1>3, <1>7, <2>3, <2>4, <2>5 DEF e
  <2>7. \A i \in 0 .. dst' - 1 : FALSE
    BY <2>1
  <2>8. PICK x \in Nat : x = e
    BY <2>6
  <2>9. Collapsing(x)'
    BY <1>3, <1>5, <2>1, <2>3, <2>6, <2>7, <2>8 DEF Collapsing
  <2> QED
    BY <1>7, <2>1, <2>9
<1>10. CASE mem[src] # NUL
  <2>1. pc' = pc /\ pc = "copy" /\ src' = src + 1 /\ dst' = dst + 1
    BY <1>10 DEF CopyInput
  <2>2. src # PathEnd /\ src + 1 <= PathEnd
    BY <1>1, <1>3, <1>10
  <2>3. \A i \in 0 .. dst' - 1 : mem'[i] # NUL
    BY <1>3, <1>6, <1>8, <1>10, <2>1
  <2>4. mem'[0] = "/"
    BY <1>3, <1>6, <1>8
  <2>5. PathUnread'
    <3> SUFFICES ASSUME NEW i \in src + 1 .. PathEnd PROVE mem'[i] = NUL <=> i = PathEnd
      BY <1>7, <2>1 DEF PathUnread
    <3>1. i \in src .. PathEnd /\ i \in 0 .. MemSize - 1 /\ i # dst
      BY <1>1, <1>2, <1>3
    <3> QED
      BY <1>3, <1>6, <3>1
  <2>6. dst' # 0 /\ src' \in Nat /\ dst' \in Nat /\ src' <= PathEnd /\ dst' <= src' /\ dst' + (PathEnd - src') <= Room
    BY <1>1, <1>3, <2>1, <2>2
  <2>7. last' = NUL /\ (IF dst' = 0 THEN mem'[src'] = "/" ELSE mem'[0] = "/")
    BY <1>3, <1>5, <2>4, <2>6
  <2>8. PathCopied'
    BY <1>7, <2>3, <2>5, <2>6, <2>7 DEF PathCopied
  <2> QED
    BY <1>7, <2>1, <2>8
<1> QED
  BY <1>9, <1>10

LEMMA CollapseStep ==
    ASSUME PathsAssumption, Apart, Called, NEW e \in Nat, Collapsing(e), Collapse
    PROVE  /\ Called'
           /\ \/ pc' = "collapse" /\ \E x \in Nat : Collapsing(x)'
              \/ pc' = "scan" /\ \E x \in Nat : Scanned(x)'
<1>1. Room \in Nat /\ Room < MemSize /\ MemSize \in Nat /\ NUL # "/" /\ NUL \in Cell
  BY CalledWith, PathNumbers
<1>2. /\ src \in Nat /\ dst \in Nat /\ e <= Room /\ src <= e /\ dst <= src
      /\ mem[0] = "/" /\ mem[e] = NUL
      /\ \A i \in 0 .. dst - 1 : mem[i] # NUL
      /\ \A i \in src .. e - 1 : mem[i] # NUL
      /\ \A i \in 0 .. dst - 2 : ~(mem[i] = "/" /\ mem[i + 1] = "/")
      /\ dst = 0 => src = 0 /\ last = NUL
      /\ dst # 0 => last = mem[dst - 1]
  BY DEF Collapsing
<1>3. mem \in Memories /\ dst \in 0 .. MemSize - 1 /\ mem[src] \in Cell
  BY <1>1, <1>2 DEF Called, Memories
<1>4. UNCHANGED <<cwd, path>> /\ Room' = Room
  BY DEF Collapse, Room
<1>5. CASE mem[src] = NUL
  <2>1. mem' = [mem EXCEPT ![dst] = NUL] /\ pc' = "scan" /\ src' = 0 /\ UNCHANGED <<dst, last>>
    BY <1>5 DEF Collapse
  <2>2. /\ mem' \in Memories /\ mem'[dst] = NUL
        /\ \A i \in 0 .. MemSize - 1 : i # dst => mem'[i] = mem[i]
    BY <1>1, <1>3, <2>1, CellWritten
  <2>3. dst # 0
    BY <1>1, <1>2, <1>5
  <2>4. \A i \in 0 .. dst - 1 : mem'[i] = mem[i]
    BY <1>1, <1>2, <1>3, <2>2
  <2>5. dst \in Nat \ {0} /\ mem'[0] = "/" /\ \A i \in 0 .. dst - 1 : mem'[i] # NUL
    BY <1>2, <2>3, <2>4
  <2>6. \A i \in 0 .. dst - 2 : ~(mem'[i] = "/" /\ mem'[i + 1] = "/")
    <3> SUFFICES ASSUME NEW i \in 0 .. dst - 2 PROVE ~(mem'[i] = "/" /\ mem'[i + 1] = "/")
      OBVIOUS
    <3>1. i \in 0 .. dst - 1 /\ i + 1 \in 0 .. dst - 1
      BY <1>2
    <3>2. mem'[i] = mem[i] /\ mem'[i + 1] = mem[i + 1]
      BY <2>4, <3>1
    <3> QED
      BY <1>2, <3>2
  <2>7. PICK x \in Nat : x = dst
    BY <1>2
  <2>8. Text(mem', x)
    BY <2>2, <2>5, <2>6, <2>7 DEF Text
  <2>9. x <= Room' /\ src' \in 0 .. x /\ dst' \in 0 .. Room' /\ \A i \in 0 .. src' - 1 : FALSE
    BY <1>1, <1>2, <1>4, <2>1, <2>7
  <2>10. Scanned(x)'
    BY <2>8, <2>9 DEF Scanned
  <2>11. Called'
    BY <1>4, <2>1, <2>2 DEF Called
  <2> QED
    BY <2>1, <2>10, <2>11
<1>6. CASE mem[src] # NUL /\ Kept(mem[src])
  <2>1. /\ mem' = [mem EXCEPT ![dst] = mem[src]] /\ pc' = pc /\ pc = "collapse"
        /\ src' = src + 1 /\ dst' = dst + 1 /\ last' = mem[src]
    BY <1>6 DEF Collapse
  <2>2. /\ mem' \in Memories /\ mem'[dst] = mem[src]
        /\ \A i \in 0 .. MemSize - 1 : i # dst => mem'[i] = mem[i]
    BY <1>1, <1>3, <2>1, CellWritten
  <2>3. src # e /\ src + 1 <= e
    BY <1>2, <1>6
  <2>4. \A i \in 0 .. dst - 1 : mem'[i] = mem[i]
    BY <1>1, <1>2, <1>3, <2>2
  <2>5. \A i \in src + 1 .. e : mem'[i] = mem[i]
    <3> SUFFICES ASSUME NEW i \in src + 1 .. e PROVE mem'[i] = mem[i]
      OBVIOUS
    <3>1. i \in 0 .. MemSize - 1 /\ i # dst
      BY <1>1, <1>2
    <3> QED
      BY <2>2, <3>1
  <2>6. mem'[0] = "/"
    <3>1. CASE dst = 0
      BY <1>2, <2>2, <3>1
    <3>2. CASE dst # 0
      BY <1>2, <2>4, <3>2
    <3> QED
      BY <3>1, <3>2
  <2>7. mem'[e] = NUL /\ \A i \in src + 1 .. e - 1 : mem'[i] # NUL
    BY <1>2, <2>3, <2>5
  <2>8. \A i \in 0 .. dst : mem'[i] # NUL
    BY <1>2, <1>6, <2>2, <2>4
  <2>9. \A i \in 0 .. dst - 1 : ~(mem'[i] = "/" /\ mem'[i + 1] = "/")
    <3> SUFFICES ASSUME NEW i \in 0 .. dst - 1, mem'[i] = "/", mem'[i + 1] = "/" PROVE FALSE
      OBVIOUS
    <3>1. mem[i] = "/"
      BY <2>4
    <3>2. CASE i = dst - 1
      <4>1. i + 1 = dst /\ dst # 0
        BY <1>2, <3>2
      <4>2. mem[src] = "/" /\ last = "/"
        BY <1>2, <2>2, <3>1, <3>2, <4>1
      <4> QED
        BY <1>6, <4>2 DEF Kept
    <3>3. CASE i # dst - 1
      <4>1. i \in 0 .. dst - 2 /\ i + 1 \in 0 .. dst - 1
        BY <1>2, <3>3
      <4>2. mem[i + 1] = "/"
        BY <2>4, <4>1
      <4> QED
        BY <1>2, <3>1, <4>1, <4>2
    <3> QED
      BY <3>2, <3>3
  <2>10. /\ src' \in Nat /\ dst' \in Nat /\ e <= Room' /\ src' <= e /\ dst' <= src' /\ dst' # 0
         /\ dst' - 1 = dst /\ dst' - 2 = dst - 1
    BY <1>2, <1>4, <2>1, <2>3
  <2>11. last' = mem'[dst' - 1]
    BY <2>1, <2>2, <2>10
  <2>12. Collapsing(e)'
    BY <2>1, <2>6, <2>7, <2>8, <2>9, <2>10, <2>11 DEF Collapsing
  <2>13. Called'
    BY <1>3, <1>4, <2>1, <2>2 DEF Called
  <2> QED
    BY <2>1, <2>12, <2>13
<1>7. CASE mem[src] # NUL /\ ~Kept(mem[src])
  <2>1. src' = src + 1 /\ UNCHANGED <<mem, dst, last, pc>> /\ pc = "collapse"
    BY <1>7 DEF Collapse
  <2>2. dst # 0
    BY <1>1, <1>2, <1>7 DEF Kept
  <2>3. src # e /\ src + 1 <= e
    BY <1>2, <1>7
  <2>4. Collapsing(e)'
    BY <1>2, <1>4, <2>1, <2>2, <2>3 DEF Collapsing
  <2>5. Called'
    BY <1>4, <2>1 DEF Called
  <2> QED
    BY <2>1, <2>4, <2>5
<1> QED
  BY <1>5, <1>6, <1>7

\* "/.." and the component in front of it are taken out; what is behind moves
\* to where the component began.
LEMMA CutCells ==
    ASSUME PathsAssumption, Apart, Called, NEW e \in Nat, Scanned(e),
           At(src, <<"/", ".", ".", "/">>), mem' = Stored(mem, StringAt(src + 3), Before)
    PROVE  /\ mem[src] = "/" /\ mem[src + 1] = "." /\ mem[src + 2] = "." /\ mem[src + 3] = "/"
           /\ src + 3 < e /\ mem' \in Memories /\ Text(mem', Before + (e - src - 3))
           /\ \A i \in 0 .. Before - 1 : mem'[i] = mem[i]
           /\ \A i \in 0 .. e - src - 3 : mem'[Before + i] = mem[src + 3 + i]
<1>1. /\ Room \in Nat /\ Room < MemSize /\ MemSize \in Nat
      /\ NUL # "/" /\ NUL # "." /\ "/" # "." /\ NUL \in Cell /\ "/" \in Cell
  BY CalledWith, PathNumbers
<1>2. /\ Text(mem, e) /\ e <= Room /\ src \in 0 .. e /\ dst \in 0 .. Room
      /\ \A i \in 0 .. src - 1 : ~UpAt(mem, i)
  BY DEF Scanned
<1>3. /\ mem[0] = "/" /\ mem[e] = NUL /\ e \in Nat \ {0}
      /\ \A i \in 0 .. e - 1 : mem[i] # NUL
      /\ \A i \in 0 .. e - 2 : ~(mem[i] = "/" /\ mem[i + 1] = "/")
  BY <1>2 DEF Text
<1>4. mem \in Memories
  BY DEF Called
<1> DEFINE b == Before
<1>5. b \in 0 .. src /\ mem[b] = "/"
  BY <1>2, <1>3, BeforeIs
<1> HIDE DEF b
<1>6. mem' = Stored(mem, StringAt(src + 3), b)
  BY DEF b
<1> DEFINE n == e - src - 3
           s == [k \in 1 .. n |-> mem[src + 3 + k - 1]]
<1>7. mem[src] = "/" /\ mem[src + 1] = "." /\ mem[src + 2] = "." /\ mem[src + 3] = "/"
  BY <1>1, <1>2, PatternsAt
<1>8. src # e /\ src + 1 # e /\ src + 2 # e /\ src + 3 # e
  BY <1>1, <1>3, <1>7
<1>9. src + 3 < e
  BY <1>2, <1>8
<1>10. n \in Nat \ {0} /\ b + n < e /\ b + n < MemSize /\ b \in Nat /\ src + 3 \in Nat /\ e < MemSize
  BY <1>1, <1>2, <1>5, <1>9
<1>11. StringAt(src + 3) = s
  <2>1. \A i \in src + 3 .. e - 1 : mem[i] # NUL
    BY <1>2, <1>3
  <2>2. StringAt(src + 3) = [k \in 1 .. e - (src + 3) |-> mem[src + 3 + k - 1]]
    <3>1. PICK a \in Nat : a = src + 3
      BY <1>10
    <3>2. a <= e /\ \A i \in a .. e - 1 : mem[i] # NUL
      BY <1>9, <2>1, <3>1
    <3>3. StringAt(a) = [k \in 1 .. e - a |-> mem[a + k - 1]]
      BY <1>1, <1>3, <1>10, <3>2, StringIs
    <3> QED
      BY <3>1, <3>3
  <2>3. e - (src + 3) = e - src - 3
    BY <1>2
  <2> QED
    BY <2>2, <2>3
<1>12. \A k \in 1 .. n : src + 3 + k - 1 \in 0 .. MemSize - 1 /\ s[k] = mem[src + 3 + k - 1]
  BY <1>1, <1>2
<1>13. s \in [1 .. n -> Cell]
  BY <1>4, <1>12 DEF Memories
<1> HIDE DEF s
<1>14. /\ mem' \in Memories
      /\ \A i \in 0 .. MemSize - 1 :
           mem'[i] = IF i \in b .. b + n - 1 THEN s[i - b + 1]
                     ELSE IF i = b + n THEN NUL ELSE mem[i]
  <2>1. mem' = Stored(mem, s, b)
    BY <1>6, <1>11
  <2> HIDE DEF n
  <2> QED
    BY <1>1, <1>4, <1>10, <1>13, <2>1, StoredCells
<1>15. \A i \in 0 .. b - 1 : mem'[i] = mem[i]
  BY <1>1, <1>2, <1>5, <1>10, <1>14
<1>16. \A i \in 0 .. n : mem'[b + i] = mem[src + 3 + i]
  <2> SUFFICES ASSUME NEW i \in 0 .. n PROVE mem'[b + i] = mem[src + 3 + i]
    OBVIOUS
  <2>1. b + i \in 0 .. MemSize - 1
    BY <1>1, <1>2, <1>10
  <2>2. CASE i = n
    <3>1. src + 3 + i = e /\ b + i = b + n /\ b + i \notin b .. b + n - 1
      BY <1>2, <1>10, <2>2
    <3> QED
      BY <1>3, <1>14, <2>1, <3>1
  <2>3. CASE i # n
    <3>1. b + i \in b .. b + n - 1 /\ b + i - b + 1 = i + 1 /\ i + 1 \in 1 .. n /\ src + 3 + (i + 1) - 1 = src + 3 + i
      BY <1>2, <1>10, <2>3
    <3>2. mem'[b + i] = s[i + 1]
      <4>1. PICK j \in 0 .. MemSize - 1 : j = b + i
        BY <2>1
      <4>2. mem'[j] = s[j - b + 1]
        BY <1>14, <3>1, <4>1
      <4>3. j - b + 1 = i + 1
        BY <1>10, <4>1
      <4> QED
        BY <4>1, <4>2, <4>3
    <3>3. PICK k \in 1 .. n : k = i + 1
      BY <3>1
    <3>4. s[k] = mem[src + 3 + k - 1]
      BY <1>12
    <3> QED
      BY <3>1, <3>2, <3>3, <3>4
  <2> QED
    BY <2>2, <2>3
<1>17. Text(mem', b + n)
  <2>1. \A i \in 0 .. e - src - 3 : mem'[b + i] = mem[src + 3 + i]
    BY <1>16
  <2>2. src \in Nat /\ b <= src
    BY <1>2, <1>5
  <2> HIDE DEF n
  <2>3. Text(mem', b + (e - src - 3))
    BY <1>1, <1>2, <1>5, <1>7, <1>9, <1>10, <1>15, <2>1, <2>2, CutText
  <2> QED
    BY <2>3 DEF n
<1> QED
  BY <1>7, <1>9, <1>14, <1>15, <1>16, <1>17 DEF b

\* "/.." and the component in front of it are taken out at the end.
LEMMA CutEnd ==
    ASSUME PathsAssumption, Apart, Called, NEW e \in Nat, Scanned(e),
           At(src, <<"/", ".", ".", NUL>>),
           mem' = Stored(mem, IF Before = 0 THEN <<"/">> ELSE <<>>, Before)
    PROVE  /\ mem[src] = "/" /\ mem[src + 1] = "." /\ mem[src + 2] = "." /\ src + 3 = e
           /\ mem' \in Memories
           /\ Before = 0 => Text(mem', 1)
           /\ Before # 0 => /\ Before < e /\ Text(mem', Before)
                            /\ \A i \in 0 .. Before - 1 : mem'[i] = mem[i]
<1>1. /\ Room \in Nat /\ Room < MemSize /\ MemSize \in Nat
      /\ NUL # "/" /\ NUL # "." /\ "/" # "." /\ NUL \in Cell /\ "/" \in Cell
  BY CalledWith, PathNumbers
<1>2. /\ Text(mem, e) /\ e <= Room /\ src \in 0 .. e /\ dst \in 0 .. Room
      /\ \A i \in 0 .. src - 1 : ~UpAt(mem, i)
  BY DEF Scanned
<1>3. /\ mem[0] = "/" /\ mem[e] = NUL /\ e \in Nat \ {0}
      /\ \A i \in 0 .. e - 1 : mem[i] # NUL
      /\ \A i \in 0 .. e - 2 : ~(mem[i] = "/" /\ mem[i + 1] = "/")
  BY <1>2 DEF Text
<1>4. mem \in Memories
  BY DEF Called
<1> DEFINE b == Before
<1>5. b \in 0 .. src /\ mem[b] = "/"
  BY <1>2, <1>3, BeforeIs
<1> HIDE DEF b
<1>6. mem' = Stored(mem, IF b = 0 THEN <<"/">> ELSE <<>>, b)
  BY DEF b
<1>7. mem[src] = "/" /\ mem[src + 1] = "." /\ mem[src + 2] = "." /\ mem[src + 3] = NUL
  BY <1>1, <1>2, PatternsAt
<1>8. src # e /\ src < e
  BY <1>1, <1>2, <1>3, <1>7
<1>9. src + 1 # e /\ src + 2 # e /\ src + 3 <= e
  <2>1. src + 1 # e /\ src + 2 # e
    BY <1>1, <1>3, <1>7
  <2> QED
    BY <1>2, <1>3, <1>8, <2>1
<1>10. src + 3 = e
  BY <1>2, <1>3, <1>7, <1>9
<1>11. CASE b = 0
  <2>1. mem' = Stored(mem, <<"/">>, 0)
    BY <1>6, <1>11
  <2>2. 0 + 1 < MemSize
    <3>1. e # 1
      BY <1>1, <1>2, <1>3, <1>7, <1>8
    <3> QED
      BY <1>1, <1>2, <1>3, <3>1
  <2>3. <<"/">> \in [1 .. 1 -> Cell]
    BY <1>1
  <2>4. /\ mem' \in Memories
        /\ \A i \in 0 .. MemSize - 1 :
             mem'[i] = IF i \in 0 .. 0 + 1 - 1 THEN <<"/">>[i - 0 + 1]
                       ELSE IF i = 0 + 1 THEN NUL ELSE mem[i]
    <3> DEFINE s == <<"/">>
    <3>1. PICK n \in Nat : n = 1
      OBVIOUS
    <3>2. PICK a \in Nat : a = 0
      BY <2>2
    <3>3. mem' = Stored(mem, s, a) /\ s \in [1 .. n -> Cell] /\ a + n < MemSize
      BY <2>1, <2>2, <2>3, <3>1, <3>2
    <3> HIDE DEF s
    <3>4. /\ Stored(mem, s, a) \in Memories
          /\ \A i \in 0 .. MemSize - 1 :
               Stored(mem, s, a)[i] = IF i \in a .. a + n - 1 THEN s[i - a + 1]
                                              ELSE IF i = a + n THEN NUL ELSE mem[i]
      BY <1>1, <1>4, <3>3, StoredCells
    <3> QED
      BY <3>1, <3>2, <3>3, <3>4 DEF s
  <2>5. mem'[0] = "/" /\ mem'[1] = NUL
    <3>1. 0 \in 0 .. MemSize - 1 /\ 1 \in 0 .. MemSize - 1 /\ 0 \in 0 .. 0 + 1 - 1 /\ ~(1 \in 0 .. 0 + 1 - 1)
      BY <1>1, <2>2
    <3>2. mem'[0] = <<"/">>[0 - 0 + 1] /\ mem'[1] = NUL
      BY <2>4, <3>1
    <3> QED
      BY <3>2
  <2>6. Text(mem', 1)
    BY <1>1, <2>5 DEF Text
  <2> QED
    BY <1>7, <1>11, <1>10, <2>4, <2>6 DEF b
<1>12. CASE b # 0
  <2>1. mem' = Stored(mem, <<>>, b)
    BY <1>6, <1>12
  <2>2. b \in Nat \ {0} /\ b + 0 < MemSize /\ b < e
    BY <1>1, <1>2, <1>5, <1>8, <1>12
  <2>3. <<>> \in [1 .. 0 -> Cell]
    OBVIOUS
  <2>4. /\ mem' \in Memories
        /\ \A i \in 0 .. MemSize - 1 :
             mem'[i] = IF i \in b .. b + 0 - 1 THEN <<>>[i - b + 1]
                       ELSE IF i = b + 0 THEN NUL ELSE mem[i]
    <3> DEFINE s == <<>>
    <3>1. PICK n \in Nat : n = 0
      OBVIOUS
    <3>2. PICK a \in Nat : a = b
      BY <2>2
    <3>3. mem' = Stored(mem, s, a) /\ s \in [1 .. n -> Cell] /\ a + n < MemSize
      BY <2>1, <2>2, <2>3, <3>1, <3>2
    <3> HIDE DEF s
    <3>4. /\ Stored(mem, s, a) \in Memories
          /\ \A i \in 0 .. MemSize - 1 :
               Stored(mem, s, a)[i] = IF i \in a .. a + n - 1 THEN s[i - a + 1]
                                              ELSE IF i = a + n THEN NUL ELSE mem[i]
      BY <1>1, <1>4, <3>3, StoredCells
    <3> QED
      BY <3>1, <3>2, <3>3, <3>4 DEF s
  <2>5. mem'[b] = NUL /\ \A i \in 0 .. b - 1 : mem'[i] = mem[i]
    <3>1. ~(b \in b .. b + 0 - 1) /\ b + 0 = b /\ b \in 0 .. MemSize - 1
      BY <1>1, <2>2
    <3>2. \A i \in 0 .. b - 1 : i \in 0 .. MemSize - 1 /\ ~(i \in b .. b + 0 - 1) /\ ~(i = b + 0)
      BY <1>1, <2>2
    <3> QED
      BY <2>4, <3>1, <3>2
  <2>6. Text(mem', b)
    <3>1. mem'[0] = "/" /\ \A i \in 0 .. b - 1 : mem'[i] # NUL
      BY <1>3, <2>2, <2>5
    <3>2. \A i \in 0 .. b - 2 : ~(mem'[i] = "/" /\ mem'[i + 1] = "/")
      <4> SUFFICES ASSUME NEW i \in 0 .. b - 2 PROVE ~(mem'[i] = "/" /\ mem'[i + 1] = "/")
        OBVIOUS
      <4>1. i \in 0 .. b - 1 /\ i + 1 \in 0 .. b - 1 /\ i \in 0 .. e - 2
        BY <1>3, <2>2
      <4>2. mem'[i] = mem[i] /\ mem'[i + 1] = mem[i + 1]
        BY <2>5, <4>1
      <4> QED
        BY <1>3, <4>1, <4>2
    <3> QED
      BY <2>2, <2>5, <3>1, <3>2 DEF Text
  <2> QED
    BY <1>7, <1>12, <1>10, <2>2, <2>4, <2>5, <2>6 DEF b
<1> QED
  BY <1>11, <1>12

LEMMA ScanStep ==
    ASSUME PathsAssumption, Apart, Called, NEW e \in Nat, Scanned(e), Scan
    PROVE  /\ Called'
           /\ \/ pc' = "scan" /\ \E x \in Nat : Scanned(x)'
              \/ pc' = "done" /\ \E x \in Nat : Finished(x)'
<1>1. /\ Room \in Nat /\ Room < MemSize /\ MemSize \in Nat
      /\ NUL # "/" /\ NUL # "." /\ "/" # "." /\ NUL \in Cell /\ "/" \in Cell
  BY CalledWith, PathNumbers
<1>2. /\ Text(mem, e) /\ e <= Room /\ src \in 0 .. e /\ dst \in 0 .. Room
      /\ \A i \in 0 .. src - 1 : ~UpAt(mem, i)
  BY DEF Scanned
<1>3. /\ mem[0] = "/" /\ mem[e] = NUL /\ e \in Nat \ {0}
      /\ \A i \in 0 .. e - 1 : mem[i] # NUL
      /\ \A i \in 0 .. e - 2 : ~(mem[i] = "/" /\ mem[i + 1] = "/")
  BY <1>2 DEF Text
<1>4. UNCHANGED <<dst, last, cwd, path>> /\ Room' = Room
  BY DEF Scan, Room
<1>5. mem \in Memories
  BY DEF Called
<1> DEFINE b == Before
<1>6. b \in 0 .. src /\ mem[b] = "/"
  BY <1>2, <1>3, BeforeIs
<1> HIDE DEF b
<1>7. CASE mem[src] = NUL /\ pc' = "done" /\ UNCHANGED <<mem, src>>
  <2>1. src = e
    BY <1>2, <1>3, <1>7
  <2>2. Finished(e)'
    BY <1>1, <1>2, <1>4, <1>7, <2>1 DEF Finished
  <2>3. Called'
    BY <1>4, <1>7 DEF Called
  <2> QED
    BY <1>7, <2>2, <2>3
<1>8. CASE mem[src] # NUL /\ ~UpHere /\ src' = src + 1 /\ UNCHANGED <<mem, pc>> /\ pc = "scan"
  <2>1. src + 1 <= e
    BY <1>2, <1>3, <1>8
  <2>2. ~UpAt(mem, src)
    <3> SUFFICES ASSUME UpAt(mem, src) PROVE FALSE
      OBVIOUS
    <3>1. mem[src + 1] # NUL /\ mem[src + 2] # NUL
      BY <1>1 DEF UpAt
    <3>2. src + 1 # e /\ src + 2 # e
      BY <1>3, <3>1
    <3>3. src + 3 < MemSize
      BY <1>1, <1>2, <2>1, <3>2
    <3> QED
      BY <1>1, <1>2, <1>8, <3>3, PatternsAt
  <2>3. \A i \in 0 .. src' - 1 : ~UpAt(mem, i)
    BY <1>2, <1>8, <2>2
  <2>4. src' \in 0 .. e
    BY <1>2, <1>8, <2>1
  <2>5. Scanned(e)'
    BY <1>2, <1>4, <1>8, <2>3, <2>4 DEF Scanned
  <2>6. Called'
    BY <1>4, <1>8 DEF Called
  <2> QED
    BY <1>8, <2>5, <2>6
<1>9. CASE /\ At(src, <<"/", ".", ".", "/">>) /\ pc' = pc /\ pc = "scan" /\ src' = 0
           /\ mem' = Stored(mem, StringAt(src + 3), b)
  <2>1. mem' = Stored(mem, StringAt(src + 3), Before)
    BY <1>9 DEF b
  <2>2. mem' \in Memories /\ src + 3 < e /\ Text(mem', b + (e - src - 3))
    BY <1>9, <2>1, CutCells DEF b
  <2>3. b + (e - src - 3) \in Nat /\ b + (e - src - 3) <= e
    BY <1>2, <1>6, <2>2
  <2>4. PICK x \in Nat : x = b + (e - src - 3)
    BY <2>3
  <2>5. x <= Room' /\ src' \in 0 .. x /\ dst' \in 0 .. Room' /\ \A i \in 0 .. src' - 1 : FALSE
    BY <1>1, <1>2, <1>4, <1>9, <2>3, <2>4
  <2>6. Scanned(x)'
    BY <2>2, <2>4, <2>5 DEF Scanned
  <2>7. Called'
    BY <1>4, <2>2 DEF Called
  <2> QED
    BY <1>9, <2>6, <2>7
<1>10. CASE /\ At(src, <<"/", ".", ".", NUL>>) /\ pc' = "done" /\ UNCHANGED src
            /\ mem' = Stored(mem, IF b = 0 THEN <<"/">> ELSE <<>>, b)
  <2>1. mem' = Stored(mem, IF Before = 0 THEN <<"/">> ELSE <<>>, Before)
    BY <1>10 DEF b
  <2>2. /\ src + 3 = e /\ mem' \in Memories
        /\ b = 0 => Text(mem', 1)
        /\ b # 0 => b < e /\ Text(mem', b) /\ \A i \in 0 .. b - 1 : mem'[i] = mem[i]
    BY <1>10, <2>1, CutEnd DEF b
  <2>3. Called'
    BY <1>4, <2>2 DEF Called
  <2>4. CASE b = 0
    <3>1. Text(mem', 1) /\ mem'[1] = NUL
      BY <2>2, <2>4 DEF Text
    <3>2. \A i \in 0 .. 1 - 1 : ~UpAt(mem', i)
      BY <1>1, <3>1 DEF UpAt
    <3>3. 1 <= Room' /\ src' \in 0 .. Room' /\ dst' \in 0 .. Room'
      BY <1>1, <1>2, <1>3, <1>4, <1>10
    <3>4. Finished(1)'
      BY <3>1, <3>2, <3>3 DEF Finished
    <3> QED
      BY <1>10, <2>3, <3>4
  <2>5. CASE b # 0
    <3>1. b \in Nat \ {0} /\ b < e /\ Text(mem', b) /\ b < MemSize
      BY <1>1, <1>2, <1>6, <2>2, <2>5
    <3>2. mem'[b] = NUL /\ \A i \in 0 .. b - 1 : mem'[i] = mem[i]
      BY <2>2, <2>5, <3>1 DEF Text
    <3>3. \A i \in 0 .. b - 1 : ~UpAt(mem', i)
      <4> SUFFICES ASSUME NEW i \in 0 .. b - 1, UpAt(mem', i) PROVE FALSE
        OBVIOUS
      <4>1. mem'[i] = "/" /\ mem'[i + 1] = "." /\ mem'[i + 2] = "." /\ mem'[i + 3] \in {"/", NUL}
        BY DEF UpAt
      <4>2. i + 1 # b /\ i + 2 # b
        BY <1>1, <3>2, <4>1
      <4>3. i \in 0 .. b - 1 /\ i + 1 \in 0 .. b - 1 /\ i + 2 \in 0 .. b - 1 /\ i + 3 <= b
        BY <3>1, <4>2
      <4>4. mem[i] = "/" /\ mem[i + 1] = "." /\ mem[i + 2] = "."
        BY <3>2, <4>1, <4>3
      <4>5. mem[i + 3] \in {"/", NUL}
        <5>1. CASE i + 3 = b
          BY <1>6, <5>1
        <5>2. CASE i + 3 # b
          <6>1. i + 3 \in 0 .. b - 1
            BY <3>1, <4>3, <5>2
          <6> QED
            BY <3>2, <4>1, <6>1
        <5> QED
          BY <5>1, <5>2
      <4>6. UpAt(mem, i)
        BY <4>4, <4>5 DEF UpAt
      <4>7. i \in 0 .. src - 1
        BY <1>2, <1>6, <3>1
      <4> QED
        BY <1>2, <4>6, <4>7
    <3>4. PICK x \in Nat : x = b
      BY <3>1
    <3>5. x <= Room' /\ src' \in 0 .. Room' /\ dst' \in 0 .. Room'
      BY <1>1, <1>2, <1>4, <1>10, <3>1, <3>4
    <3>6. Finished(x)'
      BY <3>1, <3>3, <3>4, <3>5 DEF Finished
    <3> QED
      BY <1>10, <2>3, <3>6
  <2> QED
    BY <2>4, <2>5
<1> QED
  BY <1>7, <1>8, <1>9, <1>10 DEF Scan, AfterUp, Restart, b

LEMMA PathStep ==
    ASSUME PathsAssumption, Apart, PathInv, [Next]_vars
    PROVE  PathInv'
<1> USE DEF PathInv
<1>1. CASE Start
  <2>1. pc = "start" /\ Called /\ PathStarts
    BY <1>1 DEF Start
  <2>2. Called' /\ PathCopied' /\ pc' = "copy"
    BY <1>1, <2>1, PathStartStep
  <2> QED
    BY <2>2
<1>2. CASE CopyInput
  <2>1. Called /\ PathCopied
    BY <1>2 DEF CopyInput
  <2> QED
    BY <1>2, <2>1, CopyStep
<1>3. CASE Collapse
  <2>1. Called /\ \E e \in Nat : Collapsing(e)
    BY <1>3 DEF Collapse
  <2> QED
    BY <1>3, <2>1, CollapseStep
<1>4. CASE Scan
  <2>1. Called /\ \E e \in Nat : Scanned(e)
    BY <1>4 DEF Scan
  <2> QED
    BY <1>4, <2>1, ScanStep
<1>5. CASE UNCHANGED vars
  BY <1>5 DEF vars, Called, PathStarts, PathCopied, Collapsing, Scanned, Finished,
              PathUnread, PathEnd, Room
<1> QED
  BY <1>1, <1>2, <1>3, <1>4, <1>5 DEF Next

LEMMA PathInvariant ==
    ASSUME PathsAssumption, Apart
    PROVE  Spec => []PathInv
<1>1. Init => PathInv
  BY PathBegins
<1>2. PathInv /\ [Next]_vars => PathInv'
  BY PathStep
<1> QED
  BY <1>1, <1>2, PTL DEF Spec

LEMMA PathInvSuffices ==
    ASSUME PathsAssumption, Apart, PathInv
    PROVE  TypeOK /\ WritesOnlyTheResult
<1>1. /\ Called /\ Room \in Nat /\ Room < MemSize /\ MemSize \in Nat /\ Input \in Nat
      /\ PathEnd \in Nat /\ PathEnd < MemSize
  BY CalledWith, PathNumbers DEF PathInv
<1>2. /\ src \in 0 .. MemSize /\ dst \in 0 .. Room
      /\ pc \in {"start", "copy", "collapse", "scan", "done"}
  <2>1. CASE pc = "start" /\ PathStarts
    BY <1>1, <2>1, PathNumbers DEF PathStarts
  <2>2. CASE pc = "copy" /\ PathCopied
    BY <1>1, <2>2 DEF PathCopied
  <2>3. CASE pc = "collapse" /\ \E e \in Nat : Collapsing(e)
    BY <1>1, <2>3 DEF Collapsing
  <2>4. CASE pc = "scan" /\ \E e \in Nat : Scanned(e)
    BY <1>1, <2>4 DEF Scanned
  <2>5. CASE pc = "done" /\ \E e \in Nat : Finished(e)
    BY <1>1, <2>5 DEF Finished
  <2> QED
    BY <2>1, <2>2, <2>3, <2>4, <2>5 DEF PathInv
<1>3. dst \in 0 .. MemSize /\ dst <= Len(cwd) + Len(path)
  BY <1>1, <1>2 DEF Room
<1> QED
  BY <1>1, <1>2, <1>3 DEF Called, Memories, Cell, TypeOK, WritesOnlyTheResult

-----------------------------------------------------------------------------
(* Induction *)

\* What holds of 0, and of n + 1 whenever of n, holds of every number.
LEMMA Upwards ==
    ASSUME NEW S, 0 \in S, \A n \in Nat : n \in S => n + 1 \in S
    PROVE  \A n \in Nat : n \in S
<1> DEFINE Smaller == OpToRel(<, Nat)
           T == Nat \ S
<1>1. IsWellFoundedOn(Smaller, Nat)
  BY NatLessThanWellFounded
<1> SUFFICES ASSUME T # {} PROVE FALSE
  OBVIOUS
<1>2. \A x, y \in Nat : x < y => <<x, y>> \in Smaller
  BY DEF OpToRel
<1> HIDE DEF Smaller
<1>3. PICK x \in T : \A y \in T : ~(<<y, x>> \in Smaller)
  <2>1. T \subseteq Nat
    OBVIOUS
  <2> HIDE DEF T
  <2> QED
    BY <1>1, <2>1, WFMin
<1>4. x \in Nat /\ x # 0 /\ x \notin S
  OBVIOUS
<1>5. x - 1 \in Nat /\ <<x - 1, x>> \in Smaller
  BY <1>2, <1>4
<1>6. x - 1 \in S
  BY <1>3, <1>5
<1> QED
  BY <1>4, <1>5, <1>6

\* f takes a step for each number up to n, from a value each to the next.
Stepwise(f, n, s, G) == f = [i \in 0 .. n |-> IF i = 0 THEN s ELSE G[<<f[i - 1], i>>]]

\* There is such a function.
LEMMA StepsExist ==
    ASSUME NEW S, NEW s \in S, NEW m \in Nat, NEW G \in [S \X (1 .. m) -> S]
    PROVE  \E f \in [0 .. m -> S] : Stepwise(f, m, s, G)
<1> DEFINE Good == {n \in Nat : n <= m => \E f \in [0 .. n -> S] : Stepwise(f, n, s, G)}
<1>1. 0 \in Good
  <2> DEFINE f == [i \in 0 .. 0 |-> s]
  <2>1. f \in [0 .. 0 -> S] /\ Stepwise(f, 0, s, G)
    BY DEF Stepwise
  <2> QED
    BY <2>1
<1>2. ASSUME NEW n \in Nat, n \in Good PROVE n + 1 \in Good
  <2> SUFFICES ASSUME n + 1 <= m PROVE \E f \in [0 .. n + 1 -> S] : Stepwise(f, n + 1, s, G)
    OBVIOUS
  <2>1. PICK f \in [0 .. n -> S] : Stepwise(f, n, s, G)
    BY <1>2
  <2> DEFINE v == G[<<f[n], n + 1>>]
             g == [i \in 0 .. n + 1 |-> IF i = n + 1 THEN v ELSE f[i]]
  <2>2. v \in S
    <3>1. f[n] \in S /\ n + 1 \in 1 .. m
      OBVIOUS
    <3> QED
      BY <3>1
  <2>3. g \in [0 .. n + 1 -> S]
    BY <2>2
  <2>4. ASSUME NEW i \in 0 .. n + 1 PROVE g[i] = IF i = 0 THEN s ELSE G[<<g[i - 1], i>>]
    <3>1. CASE i = n + 1
      <4>1. g[n + 1] = v /\ n + 1 # 0 /\ i - 1 = n /\ n # n + 1
        BY <3>1
      <4>2. g[n] = f[n]
        OBVIOUS
      <4> QED
        BY <3>1, <4>1, <4>2
    <3>2. CASE i \in 0 .. n
      <4>1. g[i] = f[i] /\ (i # 0 => i - 1 \in 0 .. n /\ g[i - 1] = f[i - 1])
        BY <3>2
      <4>2. f[i] = IF i = 0 THEN s ELSE G[<<f[i - 1], i>>]
        BY <2>1, <3>2 DEF Stepwise
      <4> QED
        BY <4>1, <4>2
    <3> QED
      BY <3>1, <3>2
  <2> HIDE DEF g
  <2>5. Stepwise(g, n + 1, s, G)
    <3>1. g = [i \in 0 .. n + 1 |-> g[i]]
      BY <2>3
    <3> QED
      BY <2>4, <3>1 DEF Stepwise
  <2> QED
    BY <2>3, <2>5
<1> HIDE DEF Good
<1>3. m \in Good
  BY <1>1, <1>2, Upwards
<1> QED
  BY <1>3 DEF Good

-----------------------------------------------------------------------------
(* What a text comes to *)

Names == Seq(Seq(Chars))
Walks == [dirs : Names, part : Seq(Chars)]
Begin == [dirs |-> <<>>, part |-> <<>>]

\* What a component is put into stays a list of names.
LEMMA IntoIs ==
    ASSUME NEW dirs \in Names, NEW part \in Seq(Chars)
    PROVE  Into(dirs, part) \in Names
<1>1. CASE part = <<>>
  BY <1>1 DEF Into
<1>2. CASE part # <<>> /\ part # <<".", ".">>
  <2>1. Into(dirs, part) = Append(dirs, part)
    BY <1>2 DEF Into
  <2> QED
    BY <2>1 DEF Names
<1>3. CASE part # <<>> /\ part = <<".", ".">>
  <2>1. Into(dirs, part) = IF dirs = <<>> THEN <<>> ELSE Front(dirs)
    BY <1>3 DEF Into
  <2>2. CASE dirs = <<>>
    BY <2>1, <2>2 DEF Names
  <2>3. CASE dirs # <<>>
    <3>1. Front(dirs) = SubSeq(dirs, 1, Len(dirs) - 1)
      BY DEF Front
    <3>2. Len(dirs) \in Nat \ {0}
      BY <2>3 DEF Names
    <3>3. SubSeq(dirs, 1, Len(dirs) - 1) \in Names
      BY <3>2 DEF Names
    <3> QED
      BY <2>1, <2>3, <3>1, <3>3
  <2> QED
    BY <2>2, <2>3
<1> QED
  BY <1>1, <1>2, <1>3

\* So does what one character more makes of it.
LEMMA TakeIs ==
    ASSUME NEW got \in Walks, NEW c \in Chars
    PROVE  Take(got, c) \in Walks
<1>1. got.dirs \in Names /\ got.part \in Seq(Chars)
  BY DEF Walks
<1>2. Into(got.dirs, got.part) \in Names /\ Append(got.part, c) \in Seq(Chars) /\ <<>> \in Seq(Chars)
  BY <1>1, IntoIs
<1> QED
  BY <1>1, <1>2 DEF Take, Walks

\* Walk takes one character after the other.
LEMMA WalkSteps ==
    ASSUME NEW s \in Seq(Chars)
    PROVE  /\ Walk(s)[0] = Begin
           /\ \A k \in 0 .. Len(s) : Walk(s)[k] \in Walks
           /\ \A k \in 1 .. Len(s) : Walk(s)[k] = Take(Walk(s)[k - 1], s[k])
<1> DEFINE n == Len(s)
           G == [x \in Walks \X (1 .. n) |-> Take(x[1], s[x[2]])]
<1>1. n \in Nat /\ Begin \in Walks
  <2>1. <<>> \in Names /\ <<>> \in Seq(Chars)
    BY DEF Names
  <2> QED
    BY <2>1 DEF Walks, Begin
<1>2. ASSUME NEW y \in Walks, NEW k \in 1 .. n PROVE Take(y, s[k]) \in Walks
  <2>1. s[k] \in Chars
    OBVIOUS
  <2> QED
    BY <2>1, TakeIs
<1>3. G \in [Walks \X (1 .. n) -> Walks]
  <2>1. ASSUME NEW x \in Walks \X (1 .. n) PROVE Take(x[1], s[x[2]]) \in Walks
    <3>1. x[1] \in Walks /\ x[2] \in 1 .. n
      OBVIOUS
    <3> HIDE DEF n
    <3> QED
      BY <1>2, <3>1
  <2> QED
    BY <2>1
<1>4. \A y \in Walks, i \in 1 .. n : G[<<y, i>>] = Take(y, s[i])
  <2> HIDE DEF n
  <2> QED
    OBVIOUS
<1> HIDE DEF G, n
<1>5. PICK f \in [0 .. n -> Walks] : Stepwise(f, n, Begin, G)
  BY <1>1, <1>3, StepsExist
<1> DEFINE Step(g, k) == IF k = 0 THEN Begin ELSE Take(g[k - 1], s[k])
           Rule(g) == g = [k \in 0 .. n |-> Step(g, k)]
           it == CHOOSE g : Rule(g)
<1>6. Walk(s) = it
  BY DEF Walk, n, Begin
<1>7. Rule(f)
  <2>1. ASSUME NEW i \in 0 .. n PROVE f[i] = Step(f, i)
    <3>1. f[i] = IF i = 0 THEN Begin ELSE G[<<f[i - 1], i>>]
      BY <1>5 DEF Stepwise
    <3>2. i # 0 => i - 1 \in 0 .. n /\ i \in 1 .. n
      BY <1>1
    <3>3. i # 0 => G[<<f[i - 1], i>>] = Take(f[i - 1], s[i])
      BY <1>4, <3>2
    <3> QED
      BY <3>1, <3>3
  <2> HIDE DEF Step
  <2> QED
    BY <2>1
<1>8. Rule(it)
  <2> HIDE DEF Rule
  <2> QED
    BY <1>7
<1>9. \A k \in 0 .. n : it[k] = Step(it, k)
  <2> HIDE DEF it, Step
  <2> QED
    BY <1>8
<1> HIDE DEF it
<1>10. 0 \in 0 .. n /\ \A k \in 1 .. n : k \in 0 .. n /\ k # 0
  BY <1>1
<1>11. it[0] = Begin /\ \A k \in 1 .. n : it[k] = Take(it[k - 1], s[k])
  BY <1>9, <1>10
<1>12. \A k \in 0 .. n : it[k] \in Walks
  <2> DEFINE Good == {k \in Nat : k <= n => it[k] \in Walks}
  <2>1. 0 \in Good
    BY <1>1, <1>11
  <2>2. ASSUME NEW k \in Nat, k \in Good PROVE k + 1 \in Good
    <3> SUFFICES ASSUME k + 1 <= n PROVE it[k + 1] \in Walks
      OBVIOUS
    <3>1. k + 1 \in 1 .. n /\ (k + 1) - 1 = k /\ it[k] \in Walks
      BY <1>1, <2>2
    <3>2. it[k + 1] = Take(it[k], s[k + 1])
      BY <1>11, <3>1
    <3> QED
      BY <1>2, <3>1, <3>2
  <2> HIDE DEF Good
  <2>3. \A k \in Nat : k \in Good
    BY <2>1, <2>2, Upwards
  <2> QED
    BY <1>1, <2>3 DEF Good
<1> QED
  BY <1>6, <1>11, <1>12 DEF n

\* The n characters behind a in s are those behind b in t.
Alike(s, a, t, b, n) ==
    /\ n \in Nat /\ a \in Nat /\ b \in Nat /\ a + n <= Len(s) /\ b + n <= Len(t)
    /\ \A k \in 1 .. n : s[a + k] = t[b + k]

\* Two texts that came to the same and go on in the same way.
LEMMA WalksMeet ==
    ASSUME NEW s \in Seq(Chars), NEW t \in Seq(Chars), NEW a, NEW b, NEW n,
           Alike(s, a, t, b, n), Walk(s)[a] = Walk(t)[b]
    PROVE  Walk(s)[a + n] = Walk(t)[b + n]
<1>1. /\ n \in Nat /\ a \in Nat /\ b \in Nat /\ a + n <= Len(s) /\ b + n <= Len(t)
      /\ Len(s) \in Nat /\ Len(t) \in Nat /\ \A k \in 1 .. n : s[a + k] = t[b + k]
  BY DEF Alike
<1> DEFINE Good == {k \in Nat : k <= n => Walk(s)[a + k] = Walk(t)[b + k]}
<1>2. 0 \in Good
  BY <1>1
<1>3. ASSUME NEW k \in Nat, k \in Good PROVE k + 1 \in Good
  <2> SUFFICES ASSUME k + 1 <= n PROVE Walk(s)[a + (k + 1)] = Walk(t)[b + (k + 1)]
    OBVIOUS
  <2>1. PICK j \in 1 .. n : j = k + 1
    BY <1>1
  <2>2. Walk(s)[a + k] = Walk(t)[b + k] /\ s[a + (k + 1)] = t[b + (k + 1)]
    <3>1. s[a + j] = t[b + j]
      BY <1>1
    <3>2. Walk(s)[a + k] = Walk(t)[b + k]
      BY <1>1, <1>3
    <3> QED
      BY <2>1, <3>1, <3>2
  <2>3. /\ a + (k + 1) \in 1 .. Len(s) /\ (a + (k + 1)) - 1 = a + k
        /\ b + (k + 1) \in 1 .. Len(t) /\ (b + (k + 1)) - 1 = b + k
    BY <1>1
  <2>4. Walk(s)[a + (k + 1)] = Take(Walk(s)[a + k], s[a + (k + 1)])
    BY <2>3, WalkSteps
  <2>5. Walk(t)[b + (k + 1)] = Take(Walk(t)[b + k], t[b + (k + 1)])
    BY <2>3, WalkSteps
  <2> QED
    BY <2>2, <2>4, <2>5
<1> HIDE DEF Good
<1>4. n \in Good
  BY <1>1, <1>2, <1>3, Upwards
<1> QED
  BY <1>1, <1>4 DEF Good

\* FlattenSeq puts one sequence behind what it has of those before.
InSteps(seqs, T) ==
    \E f \in [0 .. Len(seqs) -> Seq(T)] :
      /\ f[0] = <<>> /\ f[Len(seqs)] = FlattenSeq(seqs)
      /\ \A i \in 1 .. Len(seqs) : f[i] = f[i - 1] \o seqs[i]

\* So it does with every sequence of texts.
LEMMA FlattenSteps ==
    ASSUME NEW T, NEW seqs \in Seq(Seq(T))
    PROVE  InSteps(seqs, T)
<1> DEFINE n == Len(seqs)
           S == Seq(T)
           G == [x \in S \X (1 .. n) |-> x[1] \o seqs[x[2]]]
<1>1. n \in Nat /\ \A i \in 1 .. n : seqs[i] \in S
  OBVIOUS
<1>2. <<>> \in S
  OBVIOUS
<1>3. G \in [S \X (1 .. n) -> S]
  <2>1. ASSUME NEW x \in S \X (1 .. n) PROVE x[1] \o seqs[x[2]] \in S
    <3>1. x[1] \in S /\ seqs[x[2]] \in S
      BY <1>1
    <3> QED
      BY <3>1
  <2> HIDE DEF S
  <2> QED
    BY <2>1
<1>4. \A y \in S, i \in 1 .. n : G[<<y, i>>] = y \o seqs[i]
  <2> HIDE DEF S
  <2> QED
    OBVIOUS
<1> HIDE DEF G, S
<1>5. PICK f \in [0 .. n -> S] : Stepwise(f, n, <<>>, G)
  BY <1>1, <1>2, <1>3, StepsExist
<1>6. f[0] = <<>> /\ \A i \in 1 .. n : f[i] = G[<<f[i - 1], i>>]
  <2> HIDE DEF n
  <2>1. \A i \in 0 .. n : f[i] = IF i = 0 THEN <<>> ELSE G[<<f[i - 1], i>>]
    BY <1>5 DEF Stepwise
  <2>2. n \in Nat /\ 0 \in 0 .. n /\ \A i \in 1 .. n : i \in 0 .. n /\ i # 0
    BY <1>1
  <2> QED
    BY <2>1, <2>2, Zenon
<1>7. \A i \in 1 .. n : f[i - 1] \in S /\ f[i] = f[i - 1] \o seqs[i]
  <2> SUFFICES ASSUME NEW i \in 1 .. n PROVE f[i - 1] \in S /\ f[i] = f[i - 1] \o seqs[i]
    OBVIOUS
  <2>1. i - 1 \in 0 .. n
    BY <1>1
  <2>2. f[i - 1] \in S
    BY <2>1
  <2> QED
    BY <1>4, <1>6, <2>2
<1>8. n # 0 => 1 \in 1 .. n /\ f[1] = <<>> \o seqs[1] /\ seqs[1] \in Seq(T)
  <2> SUFFICES ASSUME n # 0 PROVE 1 \in 1 .. n /\ f[1] = <<>> \o seqs[1] /\ seqs[1] \in Seq(T)
    OBVIOUS
  <2>1. 1 \in 1 .. n /\ 1 - 1 = 0
    BY <1>1
  <2>2. f[1] = f[1 - 1] \o seqs[1]
    BY <1>7, <2>1, Zenon
  <2> QED
    BY <1>1, <1>6, <2>1, <2>2 DEF S
<1>9. f[n] = FlattenSeq(seqs)
  <2>1. CASE n = 0
    <3>1. seqs = <<>>
      BY <2>1
    <3> QED
      BY <1>6, <2>1, <3>1 DEF FlattenSeq
  <2>2. CASE n # 0
    <3> DEFINE Step(g, i) == IF i = 1 THEN seqs[i] ELSE g[i - 1] \o seqs[i]
               Rule(g) == g = [i \in 1 .. n |-> Step(g, i)]
               it == CHOOSE g : Rule(g)
               h  == [i \in 1 .. n |-> f[i]]
    <3>1. FlattenSeq(seqs) = it[n]
      BY <2>2 DEF FlattenSeq
    <3>2. Rule(h)
      <4>1. ASSUME NEW i \in 1 .. n PROVE f[i] = Step(h, i)
        <5>1. CASE i = 1
          <6>1. f[1] = <<>> \o seqs[1] /\ seqs[1] \in Seq(T)
            BY <1>8, <5>1
          <6> QED
            BY <5>1, <6>1
        <5>2. CASE i # 1
          <6>1. i - 1 \in 1 .. n
            BY <1>1, <5>2
          <6>2. h[i - 1] = f[i - 1]
            BY <6>1
          <6> QED
            BY <1>7, <5>2, <6>2
        <5> QED
          BY <5>1, <5>2
      <4> HIDE DEF Step
      <4> QED
        BY <4>1
    <3>3. Rule(it)
      <4> HIDE DEF Rule, h
      <4> QED
        BY <3>2
    <3>4. \A i \in 1 .. n : it[i] = Step(it, i)
      <4> HIDE DEF it, Step
      <4> QED
        BY <3>3
    <3> HIDE DEF it, h, Rule
    <3> DEFINE Good == {k \in Nat : k \in 1 .. n => it[k] = f[k]}
    <3>5. 0 \in Good
      OBVIOUS
    <3>6. ASSUME NEW k \in Nat, k \in Good PROVE k + 1 \in Good
      <4> SUFFICES ASSUME k + 1 \in 1 .. n PROVE it[k + 1] = f[k + 1]
        OBVIOUS
      <4>1. CASE k = 0
        <5>1. it[1] = seqs[1] /\ f[1] = <<>> \o seqs[1] /\ seqs[1] \in Seq(T)
          BY <1>8, <3>4, <4>1
        <5> QED
          BY <4>1, <5>1
      <4>2. CASE k # 0
        <5>1. k \in 1 .. n /\ k + 1 # 1 /\ (k + 1) - 1 = k
          BY <1>1, <4>2
        <5>2. it[k] = f[k]
          BY <3>6, <5>1
        <5>3. it[k + 1] = it[k] \o seqs[k + 1] /\ f[k + 1] = f[k] \o seqs[k + 1]
          BY <1>7, <3>4, <5>1
        <5> QED
          BY <5>2, <5>3
      <4> QED
        BY <4>1, <4>2
    <3> HIDE DEF Good
    <3>7. n \in Good
      BY <1>1, <3>5, <3>6, Upwards
    <3>8. n \in 1 .. n
      BY <1>1, <2>2
    <3> QED
      BY <3>1, <3>7, <3>8 DEF Good
  <2> QED
    BY <2>1, <2>2
<1> QED
  BY <1>6, <1>7, <1>9 DEF S, InSteps

\* One character between two texts, or behind them.
LEMMA Concatenated ==
    ASSUME NEW x \in Seq(Chars), NEW y \in Seq(Chars), NEW c \in Chars
    PROVE  /\ x \o (<<c>> \o y) = Append(x, c) \o y
           /\ Append(x \o y, c) = x \o Append(y, c)
           /\ x \o <<>> = x
           /\ x \o (<<c>> \o y) \in Seq(Chars) /\ Append(x, c) \in Seq(Chars) /\ x \o y \in Seq(Chars)
<1>1. <<c>> \in Seq(Chars) /\ Append(x, c) \in Seq(Chars)
  OBVIOUS
<1>2. Append(x, c) = x \o <<c>> /\ Append(y, c) = y \o <<c>>
  BY AppendIsConcat
<1>3. x \o y \in Seq(Chars) /\ <<c>> \o y \in Seq(Chars)
  BY <1>1, ConcatProperties
<1>4. Append(x \o y, c) = (x \o y) \o <<c>> /\ x \o (<<c>> \o y) \in Seq(Chars)
  BY <1>1, <1>3, AppendIsConcat, ConcatProperties
<1>5. (x \o <<c>>) \o y = x \o (<<c>> \o y) /\ (x \o y) \o <<c>> = x \o (y \o <<c>>)
  BY <1>1, ConcatAssociative
<1>6. x \o <<>> = x
  BY ConcatEmptySeq
<1> QED
  BY <1>1, <1>2, <1>3, <1>4, <1>5, <1>6

\* The last of these for all texts at once.
LEMMA AppendBehind ==
    \A x \in Seq(Chars), y \in Seq(Chars), z \in Chars : Append(x \o y, z) = x \o Append(y, z)
BY Concatenated

\* A component more, and its name behind a slash.
LEMMA NamedAppend ==
    ASSUME NEW dirs \in Names, NEW part \in Seq(Chars)
    PROVE  /\ Named(<<>>) = <<>> /\ Named(dirs) \in Seq(Chars)
           /\ Named(Append(dirs, part)) = Append(Named(dirs), "/") \o part
<1> DEFINE n    == Len(dirs)
           more == Append(dirs, part)
           ones == [k \in DOMAIN dirs |-> <<"/">> \o dirs[k]]
           twos == [k \in DOMAIN more |-> <<"/">> \o more[k]]
<1>1. n \in Nat /\ more \in Names /\ Len(more) = n + 1 /\ more[n + 1] = part /\ \A k \in 1 .. n : more[k] = dirs[k]
  BY DEF Names
<1>2. ASSUME NEW d \in Names
      PROVE  /\ [k \in DOMAIN d |-> <<"/">> \o d[k]] \in Seq(Seq(Chars))
             /\ Len([k \in DOMAIN d |-> <<"/">> \o d[k]]) = Len(d)
  <2>1. DOMAIN d = 1 .. Len(d) /\ Len(d) \in Nat /\ \A k \in 1 .. Len(d) : d[k] \in Seq(Chars)
    BY DEF Names
  <2>2. "/" \in Chars
    BY DEF Chars
  <2>3. \A k \in 1 .. Len(d) : <<"/">> \o d[k] \in Seq(Chars)
    BY <2>1, <2>2
  <2> QED
    BY <2>1, <2>3
<1>3. /\ ones \in Seq(Seq(Chars)) /\ Len(ones) = n /\ twos \in Seq(Seq(Chars)) /\ Len(twos) = n + 1
  BY <1>1, <1>2
<1>4. (\A k \in 1 .. n : ones[k] = <<"/">> \o dirs[k] /\ twos[k] = <<"/">> \o dirs[k]) /\ twos[n + 1] = <<"/">> \o part
  <2>1. DOMAIN dirs = 1 .. n /\ DOMAIN more = 1 .. n + 1
    BY <1>1 DEF Names
  <2> HIDE DEF more
  <2> QED
    BY <1>1, <2>1
<1>5. Named(dirs) = FlattenSeq(ones) /\ Named(more) = FlattenSeq(twos)
  BY DEF Named
<1>6. Named(<<>>) = <<>>
  <2>1. [k \in DOMAIN <<>> |-> <<"/">> \o <<>>[k]] = <<>>
    OBVIOUS
  <2>2. FlattenSeq(<<>>) = <<>>
    BY DEF FlattenSeq
  <2> QED
    BY <2>1, <2>2 DEF Named
<1> HIDE DEF ones, twos, n, more
<1>7. PICK f \in [0 .. n -> Seq(Chars)] : f[0] = <<>> /\ f[n] = FlattenSeq(ones) /\ \A i \in 1 .. n : f[i] = f[i - 1] \o ones[i]
  BY <1>3, FlattenSteps DEF InSteps
<1>8. PICK g \in [0 .. Len(twos) -> Seq(Chars)] :
        g[0] = <<>> /\ g[n + 1] = FlattenSeq(twos) /\ \A i \in 1 .. n + 1 : g[i] = g[i - 1] \o twos[i]
  <2>1. PICK g \in [0 .. Len(twos) -> Seq(Chars)] :
          g[0] = <<>> /\ g[Len(twos)] = FlattenSeq(twos) /\ \A i \in 1 .. Len(twos) : g[i] = g[i - 1] \o twos[i]
    BY <1>3, FlattenSteps DEF InSteps
  <2> QED
    BY <1>3, <2>1
<1>9. f[n] = g[n]
  <2> DEFINE Good == {k \in Nat : k <= n => f[k] = g[k]}
  <2>1. 0 \in Good
    BY <1>7, <1>8
  <2>2. ASSUME NEW k \in Nat, k \in Good PROVE k + 1 \in Good
    <3> SUFFICES ASSUME k + 1 <= n PROVE f[k + 1] = g[k + 1]
      OBVIOUS
    <3>1. k + 1 \in 1 .. n /\ k + 1 \in 1 .. n + 1 /\ (k + 1) - 1 = k /\ f[k] = g[k]
      BY <1>1, <2>2
    <3>2. f[k + 1] = f[k] \o ones[k + 1] /\ g[k + 1] = g[k] \o twos[k + 1] /\ ones[k + 1] = twos[k + 1]
      BY <1>4, <1>7, <1>8, <3>1
    <3> QED
      BY <3>1, <3>2
  <2> HIDE DEF Good
  <2>3. n \in Good
    BY <1>1, <2>1, <2>2, Upwards
  <2> QED
    BY <1>1, <2>3 DEF Good
<1>10. Named(dirs) \in Seq(Chars)
  <2>1. n \in 0 .. n
    BY <1>1
  <2> QED
    BY <1>5, <1>7, <2>1
<1>11. Named(more) = Named(dirs) \o (<<"/">> \o part)
  <2>1. n + 1 \in 1 .. n + 1 /\ (n + 1) - 1 = n
    BY <1>1
  <2>2. g[n + 1] = g[n] \o twos[n + 1]
    BY <1>8, <2>1
  <2> QED
    BY <1>4, <1>5, <1>7, <1>8, <1>9, <2>2
<1>12. Named(more) = Append(Named(dirs), "/") \o part
  <2>1. "/" \in Chars
    BY DEF Chars
  <2> QED
    BY <1>10, <1>11, <2>1, Concatenated
<1> QED
  BY <1>6, <1>10, <1>12 DEF more

\* What Append leaves where it is.
LEMMA Appended ==
    ASSUME NEW T, NEW x \in Seq(T), NEW c \in T
    PROVE  /\ Len(Append(x, c)) = Len(x) + 1 /\ Append(x, c)[Len(x) + 1] = c
           /\ \A k \in 1 .. Len(x) : Append(x, c)[k] = x[k]
OBVIOUS

\* The component that is begun is what lies behind the last slash.
PartAt(s, i, l) ==
    /\ Len(Walk(s)[i].part) = l /\ s[i - l] = "/"
    /\ Walk(s)[i - l] = [dirs |-> Walk(s)[i].dirs, part |-> <<>>]
    /\ \A k \in 1 .. l : s[i - l + k] # "/" /\ Walk(s)[i].part[k] = s[i - l + k]

\* There is such a slash, if the text begins with one.
LEMMA PartIs ==
    ASSUME NEW s \in Seq(Chars), s # <<>>, s[1] = "/"
    PROVE  \A i \in 1 .. Len(s) : \E l \in 0 .. i - 1 : PartAt(s, i, l)
<1> DEFINE Good == {j \in Nat : j + 1 <= Len(s) => \E l \in 0 .. j : PartAt(s, j + 1, l)}
<1>1. Len(s) \in Nat \ {0}
  OBVIOUS
<1>2. ASSUME NEW i \in 1 .. Len(s), s[i] = "/"
      PROVE  PartAt(s, i, 0)
  <2>1. Walk(s)[i] = Take(Walk(s)[i - 1], "/")
    BY <1>2, WalkSteps
  <2>2. Walk(s)[i] = [dirs |-> Into(Walk(s)[i - 1].dirs, Walk(s)[i - 1].part), part |-> <<>>]
    BY <2>1 DEF Take
  <2>3. Walk(s)[i] = [dirs |-> Walk(s)[i].dirs, part |-> <<>>] /\ Len(Walk(s)[i].part) = 0
    BY <2>2
  <2>4. i - 0 = i
    OBVIOUS
  <2> QED
    BY <1>2, <2>3, <2>4 DEF PartAt
<1>3. 0 \in Good
  BY <1>1, <1>2
<1>4. ASSUME NEW j \in Nat, j \in Good PROVE j + 1 \in Good
  <2> SUFFICES ASSUME (j + 1) + 1 <= Len(s) PROVE \E l \in 0 .. j + 1 : PartAt(s, (j + 1) + 1, l)
    OBVIOUS
  <2> DEFINE i == j + 1
  <2>1. PICK l \in 0 .. j : PartAt(s, j + 1, l)
    BY <1>4
  <2>2. CASE s[i + 1] = "/"
    <3>1. PartAt(s, i + 1, 0)
      BY <1>2, <2>2
    <3> QED
      BY <3>1
  <2>3. CASE s[i + 1] # "/"
    <3>1. i \in 1 .. Len(s) /\ i + 1 \in 1 .. Len(s) /\ (i + 1) - 1 = i
      OBVIOUS
    <3>2. /\ Len(Walk(s)[i].part) = l /\ s[i - l] = "/"
          /\ Walk(s)[i - l] = [dirs |-> Walk(s)[i].dirs, part |-> <<>>]
          /\ \A k \in 1 .. l : s[i - l + k] # "/" /\ Walk(s)[i].part[k] = s[i - l + k]
      BY <2>1 DEF PartAt
    <3>3. Walk(s)[i + 1] = Take(Walk(s)[i], s[i + 1])
      BY <3>1, WalkSteps
    <3>4. Walk(s)[i + 1] = [dirs |-> Walk(s)[i].dirs, part |-> Append(Walk(s)[i].part, s[i + 1])]
      BY <2>3, <3>3 DEF Take
    <3>5. Walk(s)[i].part \in Seq(Chars)
      BY <3>1, WalkSteps DEF Walks
    <3> HIDE DEF i
    <3>6. Walk(s)[i + 1].dirs = Walk(s)[i].dirs /\ Walk(s)[i + 1].part = Append(Walk(s)[i].part, s[i + 1])
      BY <3>4
    <3>7. /\ Len(Walk(s)[i + 1].part) = l + 1 /\ Walk(s)[i + 1].part[l + 1] = s[i + 1]
          /\ \A k \in 1 .. l : Walk(s)[i + 1].part[k] = Walk(s)[i].part[k]
      <4>1. s[i + 1] \in Chars
        BY <3>1
      <4> QED
        <5>1. PICK x \in Seq(Chars) : x = Walk(s)[i].part
          BY <3>5
        <5>2. PICK z \in Chars : z = s[i + 1]
          BY <4>1
        <5>3. Len(x) = l /\ Walk(s)[i + 1].part = Append(x, z)
          BY <3>2, <3>6, <5>1, <5>2
        <5>4. /\ Len(Append(x, z)) = Len(x) + 1 /\ Append(x, z)[Len(x) + 1] = z
              /\ \A k \in 1 .. Len(x) : Append(x, z)[k] = x[k]
          BY Appended
        <5> QED
          BY <5>1, <5>2, <5>3, <5>4
    <3>8. (i + 1) - (l + 1) = i - l
      BY <3>1
    <3>9. ASSUME NEW k \in 1 .. l + 1
          PROVE  s[i - l + k] # "/" /\ Walk(s)[i + 1].part[k] = s[i - l + k]
      <4>1. CASE k = l + 1
        <5>1. i - l + k = i + 1
          BY <3>1, <4>1
        <5> QED
          BY <2>3, <3>7, <4>1, <5>1 DEF i
      <4>2. CASE k # l + 1
        <5>1. k \in 1 .. l
          BY <4>2
        <5> QED
          BY <3>2, <3>7, <5>1
      <4> QED
        BY <4>1, <4>2
    <3>10. PartAt(s, i + 1, l + 1)
      BY <3>2, <3>6, <3>7, <3>8, <3>9 DEF PartAt
    <3> QED
      BY <3>10 DEF i
  <2> QED
    BY <2>2, <2>3
<1> HIDE DEF Good
<1>5. \A j \in Nat : j \in Good
  BY <1>3, <1>4, Upwards
<1>6. ASSUME NEW i \in 1 .. Len(s) PROVE \E l \in 0 .. i - 1 : PartAt(s, i, l)
  <2>1. PICK j \in Nat : j = i - 1
    OBVIOUS
  <2>2. j \in Good /\ j + 1 = i
    BY <1>5, <2>1
  <2> QED
    BY <2>1, <2>2 DEF Good
<1> QED
  BY <1>6

-----------------------------------------------------------------------------
(* A text in the form of a result *)

\* The form of a result: no "//", and no ".." for a component.
Plain(s) ==
    /\ s # <<>> /\ s[1] = "/"
    /\ \A k \in 1 .. Len(s) - 1 : ~(s[k] = "/" /\ s[k + 1] = "/")
    /\ \A k \in 1 .. Len(s) - 2 :
         s[k] = "/" /\ s[k + 1] = "." /\ s[k + 2] = "." => k + 3 <= Len(s) /\ s[k + 3] # "/"

\* Two characters are a "..".
LEMMA DotDot ==
    ASSUME NEW p \in Seq(Chars), p = <<".", ".">>
    PROVE  Len(p) = 2 /\ p[1] = "." /\ p[2] = "."
OBVIOUS

\* In such a text every component counts.
LEMMA PlainPart ==
    ASSUME NEW s \in Seq(Chars), Plain(s), NEW i \in 1 .. Len(s), i < Len(s) => s[i + 1] = "/"
    PROVE  /\ Walk(s)[i].part = <<>> => i = Len(s) /\ s[i] = "/"
           /\ Walk(s)[i].part # <<>> =>
                s[i] # "/" /\ Into(Walk(s)[i].dirs, Walk(s)[i].part) = Append(Walk(s)[i].dirs, Walk(s)[i].part)
<1>1. PICK l \in 0 .. i - 1 : PartAt(s, i, l)
  BY PartIs DEF Plain
<1>2. /\ Len(Walk(s)[i].part) = l /\ s[i - l] = "/"
      /\ \A k \in 1 .. l : s[i - l + k] # "/" /\ Walk(s)[i].part[k] = s[i - l + k]
  BY <1>1 DEF PartAt
<1>3. Walk(s)[i].part \in Seq(Chars) /\ Len(s) \in Nat
  BY WalkSteps DEF Walks
<1>4. ASSUME Walk(s)[i].part = <<>>
      PROVE  i = Len(s) /\ s[i] = "/"
  <2>1. l = 0 /\ s[i] = "/"
    BY <1>2, <1>4
  <2>2. ~(i < Len(s))
    BY <2>1, <1>3 DEF Plain
  <2> QED
    BY <2>1, <2>2, <1>3
<1>5. ASSUME Walk(s)[i].part # <<>>
      PROVE  /\ s[i] # "/"
             /\ Into(Walk(s)[i].dirs, Walk(s)[i].part) = Append(Walk(s)[i].dirs, Walk(s)[i].part)
  <2>1. l # 0 /\ l \in 1 .. l /\ i - l + l = i
    BY <1>2, <1>3, <1>5
  <2>2. s[i] # "/"
    BY <1>2, <2>1
  <2>3. Walk(s)[i].part # <<".", ".">>
    <3> SUFFICES ASSUME Walk(s)[i].part = <<".", ".">> PROVE FALSE
      OBVIOUS
    <3>1. l = 2 /\ Walk(s)[i].part[1] = "." /\ Walk(s)[i].part[2] = "."
      BY <1>2, <1>3, DotDot
    <3>2. 1 \in 1 .. l /\ 2 \in 1 .. l /\ i - l + 1 = (i - 2) + 1 /\ i - l + 2 = (i - 2) + 2 /\ i - l = i - 2
      BY <3>1
    <3>3. s[i - l + 1] = "." /\ s[i - l + 2] = "."
      BY <1>2, <3>1, <3>2
    <3>4. PICK k \in 1 .. Len(s) - 2 : k = i - 2
      BY <3>1, <1>3
    <3>5. s[k] = "/" /\ s[k + 1] = "." /\ s[k + 2] = "."
      BY <1>2, <3>2, <3>3, <3>4
    <3>6. k + 3 <= Len(s) /\ s[k + 3] # "/"
      BY <3>5 DEF Plain
    <3>7. k + 3 = i + 1
      BY <3>4
    <3> QED
      BY <3>6, <3>7, <1>3
  <2> QED
    BY <1>5, <2>2, <2>3 DEF Into
<1> QED
  BY <1>4, <1>5

\* The first i characters are the components they come to, each behind its slash.
Spelt(s, i) == SubSeq(s, 1, i) = Append(Named(Walk(s)[i].dirs), "/") \o Walk(s)[i].part

\* The first characters of a text, one by one.
LEMMA FirstCharacters ==
    ASSUME NEW s \in Seq(Chars), NEW i \in 1 .. Len(s)
    PROVE  /\ SubSeq(s, 1, 1) = <<s[1]>>
           /\ i < Len(s) => SubSeq(s, 1, i + 1) = Append(SubSeq(s, 1, i), s[i + 1])
<1>1. SubSeq(s, 1, 1) = <<s[1]>>
  <2>1. PICK j \in 1 .. Len(s) : j = 1
    OBVIOUS
  <2>2. SubSeq(s, 1, j) \in Seq(Chars) /\ Len(SubSeq(s, 1, j)) = 1 /\ SubSeq(s, 1, j)[1] = s[1]
    BY <2>1
  <2>3. PICK x \in Seq(Chars) : x = SubSeq(s, 1, j)
    BY <2>2
  <2>4. x = <<s[1]>>
    <3>1. PICK y \in Seq(Chars) : y = <<s[1]>>
      <4>1. PICK z \in Chars : z = s[1]
        BY <2>1
      <4>2. <<z>> \in Seq(Chars)
        OBVIOUS
      <4> QED
        BY <4>1, <4>2
    <3>2. Len(y) = 1 /\ y[1] = s[1]
      BY <3>1
    <3>3. Len(x) = Len(y) /\ \A k \in 1 .. Len(x) : x[k] = y[k]
      BY <2>2, <2>3, <3>2
    <3>4. x = y
      BY <3>3, SeqEqual
    <3> QED
      BY <3>1, <3>4
  <2> QED
    BY <2>1, <2>3, <2>4
<1>2. ASSUME i < Len(s) PROVE SubSeq(s, 1, i + 1) = Append(SubSeq(s, 1, i), s[i + 1])
  <2>1. PICK j \in 1 .. Len(s) : j = i + 1
    BY <1>2
  <2>2. SubSeq(s, 1, j) = Append(SubSeq(s, 1, i), s[j])
    BY <2>1
  <2> QED
    BY <2>1, <2>2
<1> QED
  BY <1>1, <1>2

\* Every beginning of such a text is spelt by what it comes to.
LEMMA PlainSpells ==
    ASSUME NEW s \in Seq(Chars), Plain(s)
    PROVE  \A i \in 1 .. Len(s) : Spelt(s, i)
<1> DEFINE Good == {j \in Nat : j + 1 <= Len(s) => Spelt(s, j + 1)}
<1>1. Len(s) \in Nat \ {0} /\ s[1] = "/" /\ "/" \in Chars
  BY DEF Plain, Chars
<1>2. \A i \in 1 .. Len(s) : Walk(s)[i].dirs \in Names /\ Walk(s)[i].part \in Seq(Chars)
  BY WalkSteps DEF Walks
<1>3. Named(<<>>) = <<>>
  <2>1. <<>> \in Names /\ <<>> \in Seq(Chars)
    BY DEF Names
  <2> QED
    BY <2>1, NamedAppend
<1>4. 0 \in Good
  <2>1. 1 \in 1 .. Len(s) /\ 1 - 1 = 0
    BY <1>1
  <2>2. Walk(s)[1] = Take(Begin, "/")
    BY <1>1, <2>1, WalkSteps
  <2>3. Walk(s)[1] = [dirs |-> <<>>, part |-> <<>>]
    BY <2>2 DEF Take, Begin, Into
  <2>4. Walk(s)[1].dirs = <<>> /\ Walk(s)[1].part = <<>>
    BY <2>3
  <2>5. Append(Named(<<>>), "/") \o <<>> = <<"/">>
    <3>1. Append(<<>>, "/") = <<"/">> /\ <<"/">> \in Seq(Chars)
      BY <1>1
    <3>2. <<"/">> \o <<>> = <<"/">>
      BY <3>1, ConcatEmptySeq
    <3> QED
      BY <1>3, <3>1, <3>2
  <2>6. SubSeq(s, 1, 1) = <<"/">>
    BY <1>1, <2>1, FirstCharacters
  <2>7. Spelt(s, 1)
    BY <2>4, <2>5, <2>6 DEF Spelt
  <2> QED
    BY <2>7
<1>5. ASSUME NEW j \in Nat, j \in Good PROVE j + 1 \in Good
  <2> SUFFICES ASSUME (j + 1) + 1 <= Len(s) PROVE Spelt(s, (j + 1) + 1)
    OBVIOUS
  <2> DEFINE i == j + 1
             D == Walk(s)[i].dirs
             P == Walk(s)[i].part
             c == s[i + 1]
  <2>1. i \in 1 .. Len(s) /\ i + 1 \in 1 .. Len(s) /\ (i + 1) - 1 = i
    OBVIOUS
  <2>2. SubSeq(s, 1, i) = Append(Named(D), "/") \o P
    <3>1. Spelt(s, j + 1)
      BY <1>5
    <3> QED
      BY <3>1 DEF Spelt
  <2>3. D \in Names /\ P \in Seq(Chars) /\ c \in Chars
    BY <1>2, <2>1
  <2>4. SubSeq(s, 1, i + 1) = Append(SubSeq(s, 1, i), c)
    <3> HIDE DEF i
    <3> QED
      BY <2>1, FirstCharacters
  <2>5. Walk(s)[i + 1] = Take(Walk(s)[i], c)
    BY <2>1, WalkSteps
  <2>6. Named(D) \in Seq(Chars) /\ Append(Named(D), "/") \in Seq(Chars)
    BY <1>1, <2>3, NamedAppend
  <2>7. CASE c = "/"
    <3>1. P # <<>> /\ Into(D, P) = Append(D, P)
      BY <2>1, <2>7, PlainPart
    <3>2. Walk(s)[i + 1] = [dirs |-> Append(D, P), part |-> <<>>]
      BY <2>5, <2>7, <3>1 DEF Take
    <3>3. Walk(s)[i + 1].dirs = Append(D, P) /\ Walk(s)[i + 1].part = <<>>
      BY <3>2
    <3>4. Named(Append(D, P)) = Append(Named(D), "/") \o P
      BY <2>3, NamedAppend
    <3>5. Append(Named(D), "/") \o P \in Seq(Chars)
      BY <2>3, <2>6, ConcatProperties
    <3> HIDE DEF D, P, c, i
    <3>6. Append(Append(Named(D), "/") \o P, "/") \in Seq(Chars)
      BY <1>1, <3>5
    <3>7. Append(Append(Named(D), "/") \o P, "/") \o <<>> = Append(Append(Named(D), "/") \o P, "/")
      BY <3>6, ConcatEmptySeq
    <3>8. Append(Named(Walk(s)[i + 1].dirs), "/") \o Walk(s)[i + 1].part
            = Append(SubSeq(s, 1, i), c)
      BY <2>2, <2>7, <3>3, <3>4, <3>7
    <3> QED
      BY <2>4, <3>8 DEF Spelt, i, c
  <2>8. CASE c # "/"
    <3>1. Walk(s)[i + 1] = [dirs |-> D, part |-> Append(P, c)]
      BY <2>5, <2>8 DEF Take
    <3>2. Walk(s)[i + 1].dirs = D /\ Walk(s)[i + 1].part = Append(P, c)
      BY <3>1
    <3> HIDE DEF D, P, c, i
    <3>3. Append(Append(Named(D), "/") \o P, c) = Append(Named(D), "/") \o Append(P, c)
      <4>1. PICK x \in Seq(Chars) : x = Append(Named(D), "/")
        BY <2>6
      <4>2. PICK y \in Seq(Chars) : y = P
        BY <2>3
      <4>3. PICK z \in Chars : z = c
        BY <2>3
      <4>4. Append(x \o y, z) = x \o Append(y, z)
        BY AppendBehind
      <4> QED
        BY <4>1, <4>2, <4>3, <4>4
    <3> QED
      BY <2>2, <2>4, <3>2, <3>3 DEF Spelt, i, c
  <2> QED
    BY <2>7, <2>8
<1> HIDE DEF Good
<1>6. \A j \in Nat : j \in Good
  BY <1>4, <1>5, Upwards
<1>7. ASSUME NEW i \in 1 .. Len(s) PROVE Spelt(s, i)
  <2>1. PICK j \in Nat : j = i - 1
    OBVIOUS
  <2>2. j \in Good /\ j + 1 = i
    BY <1>6, <2>1
  <2> QED
    BY <2>1, <2>2 DEF Good
<1> QED
  BY <1>7

\* And so it is the absolute path of what has its components.
LEMMA PlainIsAbsolute ==
    ASSUME NEW s \in Seq(Chars), Plain(s)
    PROVE  /\ Components(s) = <<>> => s = <<"/">>
           /\ Components(s) # <<>> =>
                s = Named(Components(s)) \o (IF Last(s) = "/" THEN <<"/">> ELSE <<>>)
<1> DEFINE n == Len(s)
           D == Walk(s)[n].dirs
           P == Walk(s)[n].part
<1>1. n \in 1 .. n /\ Last(s) = s[n] /\ SubSeq(s, 1, n) = s /\ "/" \in Chars
  BY SubSeqFull DEF Plain, Last, Chars
<1>2. D \in Names /\ P \in Seq(Chars)
  BY <1>1, WalkSteps DEF Walks
<1>3. Components(s) = Into(D, P)
  BY DEF Components
<1>4. s = Append(Named(D), "/") \o P
  BY <1>1, PlainSpells DEF Spelt
<1>5. Named(D) \in Seq(Chars) /\ Named(<<>>) = <<>> /\ Named(Append(D, P)) = Append(Named(D), "/") \o P
  BY <1>2, NamedAppend
<1>6. /\ P = <<>> => s[n] = "/"
      /\ P # <<>> => s[n] # "/" /\ Into(D, P) = Append(D, P)
  BY <1>1, PlainPart
<1> HIDE DEF D, P, n
<1>7. CASE P = <<>>
  <2>1. Into(D, P) = D
    BY <1>7 DEF Into
  <2>2. Append(Named(D), "/") \in Seq(Chars) /\ Append(Named(D), "/") = Named(D) \o <<"/">>
    BY <1>1, <1>5, AppendIsConcat
  <2>3. s = Named(D) \o <<"/">>
    BY <1>4, <1>7, <2>2, ConcatEmptySeq
  <2>4. <<>> \o <<"/">> = <<"/">>
    OBVIOUS
  <2> QED
    BY <1>1, <1>3, <1>5, <1>6, <1>7, <2>1, <2>3, <2>4
<1>8. CASE P # <<>>
  <2>1. Into(D, P) = Append(D, P) /\ Append(D, P) # <<>>
    BY <1>2, <1>6, <1>8 DEF Names
  <2>2. s \o <<>> = s
    BY ConcatEmptySeq
  <2> QED
    BY <1>1, <1>3, <1>4, <1>5, <1>6, <1>8, <2>1, <2>2
<1> QED
  BY <1>7, <1>8

\* Two characters, one behind the other.
LEMMA AppendTwice ==
    ASSUME NEW T, NEW c \in T
    PROVE  Append(Append(<<>>, c), c) = <<c, c>>
<1>1. <<>> \in Seq(T) /\ <<c, c>> \in Seq(T)
  OBVIOUS
<1>2. PICK n \in Seq(T) : n = <<>>
  BY <1>1
<1>3. Append(n, c) \in Seq(T)
  OBVIOUS
<1>4. PICK x \in Seq(T) : x = Append(n, c)
  BY <1>3
<1>5. Append(x, c) \in Seq(T)
  OBVIOUS
<1>6. PICK y \in Seq(T) : y = Append(x, c)
  BY <1>5
<1>7. PICK z \in Seq(T) : z = <<c, c>>
  BY <1>1
<1>8. Len(x) = 1 /\ x[1] = c
  BY <1>2, <1>4
<1>9. Len(y) = 2 /\ y[1] = c /\ y[2] = c
  <2>1. Len(y) = Len(x) + 1 /\ y[Len(x) + 1] = c /\ \A k \in 1 .. Len(x) : y[k] = x[k]
    BY <1>6, Appended
  <2> QED
    BY <1>8, <2>1
<1>10. Len(z) = 2 /\ z[1] = c /\ z[2] = c
  BY <1>7
<1>11. Len(y) = Len(z) /\ \A k \in 1 .. Len(y) : y[k] = z[k]
  BY <1>9, <1>10
<1>12. y = z
  BY <1>11, SeqEqual
<1> QED
  BY <1>2, <1>4, <1>6, <1>7, <1>12

\* Front takes back what Append has put behind.
LEMMA FrontOfAppend ==
    ASSUME NEW T, NEW x \in Seq(T), NEW c \in T
    PROVE  Append(x, c) # <<>> /\ Front(Append(x, c)) = x
<1>1. Append(x, c) \in Seq(T)
  OBVIOUS
<1>2. PICK y \in Seq(T) : y = Append(x, c)
  BY <1>1
<1>3. Len(y) = Len(x) + 1 /\ Len(x) \in Nat /\ \A k \in 1 .. Len(x) : y[k] = x[k]
  BY <1>2
<1>4. Front(y) = SubSeq(y, 1, Len(x))
  BY <1>3 DEF Front
<1>5. SubSeq(y, 1, Len(x)) \in Seq(T)
  BY <1>3
<1>6. PICK z \in Seq(T) : z = SubSeq(y, 1, Len(x))
  BY <1>5
<1>7. Len(z) = Len(x) /\ \A k \in 1 .. Len(x) : z[k] = y[k]
  BY <1>3, <1>6
<1>8. z = x
  BY <1>3, <1>7, SeqEqual
<1> QED
  BY <1>2, <1>3, <1>4, <1>6, <1>8

\* A slash behind a slash changes nothing.
LEMMA SlashSlash ==
    ASSUME NEW s \in Seq(Chars), NEW k \in 1 .. Len(s) - 1, s[k] = "/", s[k + 1] = "/"
    PROVE  Walk(s)[k + 1] = Walk(s)[k]
<1>1. k \in 1 .. Len(s) /\ k + 1 \in 1 .. Len(s) /\ (k + 1) - 1 = k
  OBVIOUS
<1>2. Walk(s)[k] = Take(Walk(s)[k - 1], "/") /\ Walk(s)[k + 1] = Take(Walk(s)[k], "/")
  BY <1>1, WalkSteps
<1>3. PICK D : Walk(s)[k] = [dirs |-> D, part |-> <<>>]
  BY <1>2 DEF Take
<1>4. Take(Walk(s)[k], "/") = [dirs |-> Into(D, <<>>), part |-> <<>>]
  BY <1>3 DEF Take
<1> QED
  BY <1>2, <1>3, <1>4 DEF Into

\* Two dots behind a slash.
LEMMA TwoDots ==
    ASSUME NEW s \in Seq(Chars), NEW p \in Nat, p + 3 <= Len(s),
           s[p + 1] = "/", s[p + 2] = ".", s[p + 3] = "."
    PROVE  Walk(s)[p + 3] = [dirs |-> Into(Walk(s)[p].dirs, Walk(s)[p].part), part |-> <<".", ".">>]
<1> DEFINE E == Into(Walk(s)[p].dirs, Walk(s)[p].part)
<1>1. /\ p + 1 \in 1 .. Len(s) /\ p + 2 \in 1 .. Len(s) /\ p + 3 \in 1 .. Len(s)
      /\ (p + 1) - 1 = p /\ (p + 2) - 1 = p + 1 /\ (p + 3) - 1 = p + 2
  OBVIOUS
<1>2. /\ Walk(s)[p + 1] = Take(Walk(s)[p], "/") /\ Walk(s)[p + 2] = Take(Walk(s)[p + 1], ".")
      /\ Walk(s)[p + 3] = Take(Walk(s)[p + 2], ".")
  BY <1>1, WalkSteps
<1>3. Walk(s)[p + 1] = [dirs |-> E, part |-> <<>>]
  BY <1>2 DEF Take
<1> HIDE DEF E
<1>4. Walk(s)[p + 2] = [dirs |-> E, part |-> Append(<<>>, ".")]
  BY <1>2, <1>3 DEF Take
<1>5. Walk(s)[p + 3] = [dirs |-> E, part |-> Append(Append(<<>>, "."), ".")]
  BY <1>2, <1>4 DEF Take
<1>6. Append(Append(<<>>, "."), ".") = <<".", ".">>
  <2>1. "." \in Chars
    BY DEF Chars
  <2> QED
    BY <2>1, AppendTwice
<1> QED
  BY <1>5, <1>6 DEF E

\* A component and the ".." behind it come to nothing; at the root so does
\* the ".." alone.
LEMMA UpOut ==
    ASSUME NEW s \in Seq(Chars), NEW p \in Nat, p + 3 <= Len(s), s[1] = "/",
           s[p + 1] = "/", s[p + 2] = ".", s[p + 3] = ".",
           NEW b \in 0 .. p, s[b + 1] = "/", b = p => p = 0,
           \A k \in b + 2 .. p : s[k] # "/",
           p # b + 1, ~(p = b + 3 /\ s[b + 2] = "." /\ s[b + 3] = ".")
    PROVE  /\ Walk(s)[b + 1].part = <<>> /\ (b = 0 => Walk(s)[b + 1].dirs = <<>>)
           /\ Into(Walk(s)[p + 3].dirs, Walk(s)[p + 3].part) = Walk(s)[b + 1].dirs
           /\ p + 4 <= Len(s) /\ s[p + 4] = "/" => Walk(s)[p + 4] = Walk(s)[b + 1]
<1>1. Walk(s)[1] = [dirs |-> <<>>, part |-> <<>>]
  <2>1. 1 \in 1 .. Len(s) /\ 1 - 1 = 0
    OBVIOUS
  <2>2. Walk(s)[1] = Take(Begin, "/")
    BY <2>1, WalkSteps
  <2> QED
    BY <2>2 DEF Take, Begin, Into
<1> DEFINE E == Into(Walk(s)[p].dirs, Walk(s)[p].part)
<1>2. Walk(s)[p + 3] = [dirs |-> E, part |-> <<".", ".">>]
  BY TwoDots
<1>3. E \in Names
  <2>1. p \in 0 .. Len(s)
    OBVIOUS
  <2>2. Walk(s)[p].dirs \in Names /\ Walk(s)[p].part \in Seq(Chars)
    BY <2>1, WalkSteps DEF Walks
  <2> QED
    BY <2>2, IntoIs
<1>4. <<".", ".">> # <<>>
  OBVIOUS
<1> HIDE DEF E
<1>5. Into(Walk(s)[p + 3].dirs, Walk(s)[p + 3].part) = IF E = <<>> THEN <<>> ELSE Front(E)
  BY <1>2, <1>4 DEF Into
<1>6. /\ Walk(s)[b + 1].part = <<>>
      /\ Into(Walk(s)[p + 3].dirs, Walk(s)[p + 3].part) = Walk(s)[b + 1].dirs
  <2>1. CASE b = p
    <3>1. p = 0 /\ b + 1 = 1
      BY <2>1
    <3>2. E = <<>>
      <4>1. Walk(s)[0] = Begin
        BY WalkSteps
      <4> QED
        BY <3>1, <4>1 DEF E, Begin, Into
    <3> QED
      BY <1>1, <1>5, <3>1, <3>2
  <2>2. CASE b # p
    <3>1. p \in 1 .. Len(s) /\ s # <<>>
      BY <2>2
    <3>2. PICK l \in 0 .. p - 1 : PartAt(s, p, l)
      BY <3>1, PartIs
    <3>3. /\ Len(Walk(s)[p].part) = l /\ s[p - l] = "/"
          /\ Walk(s)[p - l] = [dirs |-> Walk(s)[p].dirs, part |-> <<>>]
          /\ \A k \in 1 .. l : s[p - l + k] # "/" /\ Walk(s)[p].part[k] = s[p - l + k]
      BY <3>2 DEF PartAt
    <3>4. p - l = b + 1
      <4>1. ~(p - l < b + 1)
        <5> SUFFICES ASSUME p - l < b + 1 PROVE FALSE
          OBVIOUS
        <5>1. PICK k \in 1 .. l : p - l + k = b + 1
          <6>1. b + 1 - (p - l) \in 1 .. l /\ p - l + (b + 1 - (p - l)) = b + 1
            BY <2>2
          <6> QED
            BY <6>1
        <5>2. s[p - l + k] # "/"
          BY <3>3
        <5> QED
          BY <5>1, <5>2
      <4>2. ~(p - l > b + 1)
        <5> SUFFICES ASSUME p - l > b + 1 PROVE FALSE
          OBVIOUS
        <5>1. p - l \in b + 2 .. p
          OBVIOUS
        <5> QED
          BY <3>3, <5>1
      <4> QED
        BY <4>1, <4>2
    <3>5. Walk(s)[p].dirs \in Names /\ Walk(s)[p].part \in Seq(Chars)
      BY <3>1, WalkSteps DEF Walks
    <3>6. Walk(s)[p].part # <<>>
      <4>1. l # 0
        BY <3>4
      <4> QED
        BY <3>3, <4>1
    <3>7. Walk(s)[p].part # <<".", ".">>
      <4> SUFFICES ASSUME Walk(s)[p].part = <<".", ".">> PROVE FALSE
        OBVIOUS
      <4>1. l = 2 /\ Walk(s)[p].part[1] = "." /\ Walk(s)[p].part[2] = "."
        BY <3>3, <3>5, DotDot
      <4>2. 1 \in 1 .. l /\ 2 \in 1 .. l /\ p - l + 1 = b + 2 /\ p - l + 2 = b + 3 /\ p = b + 3
        BY <3>4, <4>1
      <4>3. s[b + 2] = "." /\ s[b + 3] = "."
        BY <3>3, <4>1, <4>2
      <4> QED
        BY <4>2, <4>3
    <3>8. E = Append(Walk(s)[p].dirs, Walk(s)[p].part)
      BY <3>6, <3>7 DEF E, Into
    <3>9. PICK D \in Seq(Seq(Chars)) : D = Walk(s)[p].dirs
      BY <3>5 DEF Names
    <3>10. PICK P \in Seq(Chars) : P = Walk(s)[p].part
      BY <3>5
    <3>11. Append(D, P) # <<>> /\ Front(Append(D, P)) = D
      BY FrontOfAppend
    <3>12. Into(Walk(s)[p + 3].dirs, Walk(s)[p + 3].part) = D
      BY <1>5, <3>8, <3>9, <3>10, <3>11
    <3> QED
      BY <3>3, <3>4, <3>9, <3>12
  <2> QED
    BY <2>1, <2>2
<1>7. ASSUME p + 4 <= Len(s), s[p + 4] = "/"
      PROVE  Walk(s)[p + 4] = Walk(s)[b + 1]
  <2>1. p + 4 \in 1 .. Len(s) /\ (p + 4) - 1 = p + 3 /\ b + 1 \in 0 .. Len(s)
    BY <1>7
  <2>2. Walk(s)[p + 4] = Take(Walk(s)[p + 3], "/")
    BY <1>7, <2>1, WalkSteps
  <2>3. Walk(s)[p + 4] = [dirs |-> Walk(s)[b + 1].dirs, part |-> <<>>]
    BY <1>6, <2>2 DEF Take
  <2>4. Walk(s)[b + 1] \in Walks
    BY <2>1, WalkSteps
  <2> QED
    BY <1>6, <2>3, <2>4 DEF Walks
<1>8. ASSUME b = 0 PROVE Walk(s)[b + 1].dirs = <<>>
  <2>1. b + 1 = 1
    BY <1>8
  <2> QED
    BY <1>1, <2>1
<1> QED
  BY <1>6, <1>7, <1>8

-----------------------------------------------------------------------------
(* absolute_path: what becomes of the path *)

\* The text of e characters at address 0.
TextOf(m, e) == [k \in 1 .. e |-> m[k - 1]]

\* The path that is resolved, before anything is taken out.
Asked == Whole(cwd, path)

\* What is still to be copied is at src, what is copied at 0.
CopyFollows ==
    /\ Len(Asked) = dst + (PathEnd - src)
    /\ \A k \in 1 .. dst : mem[k - 1] = Asked[k]
    /\ \A i \in src .. PathEnd - 1 : mem[i] = Asked[dst + (i - src) + 1]

\* The slashes that are dropped make no difference.
CollapseFollows ==
    /\ src <= Len(Asked) /\ mem[Len(Asked)] = NUL
    /\ \A i \in src .. Len(Asked) - 1 : mem[i] = Asked[i + 1]
    /\ Walk(TextOf(mem, dst))[dst] = Walk(Asked)[src]
    /\ src # 0 => last = Asked[src]

\* The text of e characters names what was asked for.
SameParts(e) == Components(TextOf(mem, e)) = Components(Asked)
SameEnd(e)   == (mem[e - 1] = "/") <=> (Last(Asked) = "/")

Follows ==
    /\ pc = "start"    => \A k \in 1 .. Len(path) : mem[Input + k - 1] = path[k]
    /\ pc = "copy"     => CopyFollows
    /\ pc = "collapse" => CollapseFollows
    /\ pc = "scan"     => \E e \in Nat : Text(mem, e) /\ SameParts(e) /\ SameEnd(e)
    /\ pc = "done"     => \E e \in Nat :
                            Text(mem, e) /\ SameParts(e) /\ (Components(Asked) = <<>> \/ SameEnd(e))

-----------------------------------------------------------------------------
(* absolute_path: the texts it works on *)

\* What IsPrefix says of the characters.
LEMMA PrefixIs ==
    ASSUME NEW s \in Seq(Chars), NEW q \in Seq(Chars)
    PROVE  IsPrefix(s, q) <=> Len(s) <= Len(q) /\ \A k \in 1 .. Len(s) : s[k] = q[k]
<1>1. Len(s) \in Nat /\ Len(q) \in Nat
  OBVIOUS
<1>2. SubSeq(s, 1, Len(s)) = s
  BY SubSeqFull
<1>3. CASE Len(s) <= Len(q)
  <2>1. SubSeq(q, 1, Len(s)) \in Seq(Chars)
    BY <1>1, <1>3
  <2>2. PICK x \in Seq(Chars) : x = SubSeq(q, 1, Len(s))
    BY <2>1
  <2>3. Len(x) = Len(s) /\ \A k \in 1 .. Len(s) : x[k] = q[k]
    BY <1>1, <1>3, <2>2
  <2>4. ASSUME \A k \in 1 .. Len(s) : s[k] = q[k] PROVE s = x
    <3>1. Len(s) = Len(x) /\ \A k \in 1 .. Len(s) : s[k] = x[k]
      BY <2>3, <2>4
    <3> QED
      BY <3>1, SeqEqual
  <2>5. s = x => \A k \in 1 .. Len(s) : s[k] = q[k]
    BY <2>3
  <2> QED
    BY <1>2, <1>3, <2>2, <2>4, <2>5 DEF IsPrefix
<1>4. CASE ~(Len(s) <= Len(q))
  BY <1>4 DEF IsPrefix
<1> QED
  BY <1>3, <1>4

\* Where the path begins when it does without a "./" in front.
Skipped == IF Len(path) >= 2 /\ path[1] = "." /\ path[2] = "/" THEN 2 ELSE 0
Rooted  == Skipped < Len(path) /\ path[Skipped + 1] = "/"

\* The characters of the path that is resolved, from the directory and the path.
LEMMA AskedIs ==
    ASSUME PathsAssumption, Apart, Called
    PROVE  /\ Skipped \in {0, 2} /\ Skipped <= Len(path)
           /\ Asked \in Seq(Chars) /\ Len(Asked) \in Nat \ {0} /\ Asked[1] = "/"
           /\ Rooted => /\ Len(Asked) = Len(path) - Skipped
                        /\ \A k \in 1 .. Len(path) - Skipped : Asked[k] = path[Skipped + k]
           /\ ~Rooted => /\ Len(Asked) = Len(cwd) + (Len(path) - Skipped)
                         /\ \A k \in 1 .. Len(cwd) : Asked[k] = cwd[k]
                         /\ \A k \in 1 .. Len(path) - Skipped : Asked[Len(cwd) + k] = path[Skipped + k]
<1> DEFINE two == <<".", "/">>
           one == <<"/">>
           rel == IF IsPrefix(two, path) THEN SubSeq(path, 3, Len(path)) ELSE path
           n   == Len(path) - Skipped
<1>1. /\ path \in Seq(Chars) /\ Len(path) \in Nat /\ cwd \in Seq(Chars) /\ cwd # <<>>
      /\ Len(cwd) \in Nat \ {0} /\ cwd[1] = "/"
  BY CalledWith DEF Called, PathsAssumption
<1>2. "/" \in Chars /\ "." \in Chars
  BY DEF Chars
<1>3. /\ two \in Seq(Chars) /\ Len(two) = 2 /\ two[1] = "." /\ two[2] = "/"
      /\ one \in Seq(Chars) /\ Len(one) = 1 /\ one[1] = "/"
  BY <1>2
<1>4. Asked = IF IsPrefix(one, rel) THEN rel ELSE cwd \o rel
  BY DEF Asked, Whole
<1> HIDE DEF two, one
<1>5. IsPrefix(two, path) <=> Len(path) >= 2 /\ path[1] = "." /\ path[2] = "/"
  <2>1. IsPrefix(two, path) <=> 2 <= Len(path) /\ \A k \in 1 .. 2 : two[k] = path[k]
    <3>1. IsPrefix(two, path) <=> Len(two) <= Len(path) /\ \A k \in 1 .. Len(two) : two[k] = path[k]
      BY <1>1, <1>3, PrefixIs
    <3> QED
      BY <1>3, <3>1
  <2>2. (\A k \in 1 .. 2 : two[k] = path[k]) <=> two[1] = path[1] /\ two[2] = path[2]
    <3>1. \A k \in 1 .. 2 : k = 1 \/ k = 2
      OBVIOUS
    <3>2. 1 \in 1 .. 2 /\ 2 \in 1 .. 2
      OBVIOUS
    <3> QED
      BY <3>1, <3>2
  <2> QED
    BY <1>1, <1>3, <2>1, <2>2
<1>6. Skipped \in {0, 2} /\ Skipped <= Len(path) /\ n \in Nat
  BY <1>1 DEF Skipped
<1>7. rel \in Seq(Chars) /\ Len(rel) = n /\ \A k \in 1 .. n : rel[k] = path[Skipped + k]
  <2>1. CASE IsPrefix(two, path)
    <3>1. Skipped = 2 /\ Len(path) >= 2
      BY <1>5, <2>1 DEF Skipped
    <3>2. rel = SubSeq(path, 3, Len(path))
      BY <2>1
    <3> HIDE DEF rel
    <3>3. \A i \in 3 .. Len(path) : path[i] \in Chars
      BY <1>1
    <3>4. 3 \in Int /\ Len(path) \in Int
      BY <1>1
    <3>5. /\ rel \in Seq(Chars) /\ Len(rel) = IF 3 <= Len(path) THEN Len(path) - 3 + 1 ELSE 0
          /\ \A k \in 1 .. Len(path) - 3 + 1 : rel[k] = path[3 + k - 1]
      BY <3>2, <3>3, <3>4, SubSeqProperties
    <3>6. Len(rel) = n /\ n = Len(path) - 3 + 1
      <4>1. PICK z \in Nat : z = Len(path)
        BY <1>1
      <4>2. z >= 2 /\ Len(rel) = IF 3 <= z THEN z - 3 + 1 ELSE 0
        BY <3>1, <3>5, <4>1
      <4>3. Len(rel) = z - 2
        BY <4>2
      <4> QED
        BY <3>1, <4>1, <4>3
    <3>7. \A k \in 1 .. n : 3 + k - 1 = Skipped + k
      BY <3>1
    <3> QED
      BY <3>5, <3>6, <3>7
  <2>2. CASE ~IsPrefix(two, path)
    <3>1. Skipped = 0
      BY <1>5, <2>2 DEF Skipped
    <3>2. rel = path
      BY <2>2
    <3> QED
      BY <1>1, <3>1, <3>2
  <2> QED
    BY <2>1, <2>2
<1> HIDE DEF rel
<1>8. IsPrefix(one, rel) <=> Rooted
  <2>1. IsPrefix(one, rel) <=> 1 <= Len(rel) /\ \A k \in 1 .. 1 : one[k] = rel[k]
    BY <1>3, <1>7, PrefixIs
  <2>2. (\A k \in 1 .. 1 : one[k] = rel[k]) <=> one[1] = rel[1]
    <3>1. 1 \in 1 .. 1 /\ \A k \in 1 .. 1 : k = 1
      OBVIOUS
    <3> QED
      BY <3>1
  <2>3. 1 <= n <=> Skipped < Len(path)
    BY <1>1, <1>6
  <2>4. 1 <= n => rel[1] = path[Skipped + 1]
    BY <1>6, <1>7
  <2> QED
    BY <1>3, <1>7, <2>1, <2>2, <2>3, <2>4 DEF Rooted
<1>9. CASE Rooted
  <2>1. Asked = rel
    BY <1>4, <1>8, <1>9
  <2>2. 1 \in 1 .. n /\ Asked[1] = "/"
    BY <1>1, <1>6, <1>7, <1>9, <2>1 DEF Rooted
  <2>3. n \in Nat \ {0}
    BY <1>6, <2>2
  <2> QED
    BY <1>6, <1>7, <1>9, <2>1, <2>2, <2>3
<1>10. CASE ~Rooted
  <2>1. Asked = cwd \o rel
    BY <1>4, <1>8, <1>10
  <2>2. PICK x \in Seq(Chars) : x = rel
    BY <1>7
  <2>3. /\ cwd \o x \in Seq(Chars) /\ Len(cwd \o x) = Len(cwd) + Len(x)
        /\ \A i \in 1 .. Len(cwd) + Len(x) : (cwd \o x)[i] = IF i <= Len(cwd) THEN cwd[i] ELSE x[i - Len(cwd)]
    BY <1>1, ConcatProperties
  <2>4. Asked \in Seq(Chars) /\ Len(Asked) = Len(cwd) + n
    BY <1>7, <2>1, <2>2, <2>3
  <2>5. \A k \in 1 .. Len(cwd) : Asked[k] = cwd[k]
    <3>1. \A k \in 1 .. Len(cwd) : k \in 1 .. Len(cwd) + Len(x) /\ k <= Len(cwd)
      BY <1>1, <1>6, <1>7, <2>2
    <3> QED
      BY <2>1, <2>2, <2>3, <3>1
  <2>6. \A k \in 1 .. n : Asked[Len(cwd) + k] = path[Skipped + k]
    <3> SUFFICES ASSUME NEW k \in 1 .. n PROVE Asked[Len(cwd) + k] = path[Skipped + k]
      OBVIOUS
    <3>1. PICK i \in 1 .. Len(cwd) + Len(x) : i = Len(cwd) + k
      <4>1. Len(cwd) + k \in 1 .. Len(cwd) + Len(x)
        BY <1>1, <1>6, <1>7, <2>2
      <4> QED
        BY <4>1
    <3>2. ~(i <= Len(cwd)) /\ i - Len(cwd) = k
      BY <1>1, <3>1
    <3>3. Asked[i] = x[i - Len(cwd)]
      BY <2>1, <2>2, <2>3, <3>2
    <3>4. x[k] = path[Skipped + k]
      BY <1>7, <2>2
    <3> QED
      BY <3>1, <3>2, <3>3, <3>4
  <2>7. 1 \in 1 .. Len(cwd) /\ Len(Asked) \in Nat \ {0}
    BY <1>1, <1>6, <2>4
  <2> QED
    BY <1>1, <1>6, <1>10, <2>4, <2>5, <2>6, <2>7
<1> QED
  BY <1>9, <1>10

\* A text in memory is a sequence of characters.
LEMMA TextIs ==
    ASSUME PathsAssumption, NEW m \in Memories, NEW e \in Nat, e < MemSize,
           \A i \in 0 .. e - 1 : m[i] # NUL
    PROVE  /\ TextOf(m, e) \in Seq(Chars) /\ Len(TextOf(m, e)) = e
           /\ \A k \in 1 .. e : TextOf(m, e)[k] = m[k - 1]
           /\ \A i \in 0 .. e - 1 : TextOf(m, e)[i + 1] = m[i]
<1>1. MemSize \in Nat
  BY PathNumbers
<1>2. \A k \in 1 .. e : m[k - 1] \in Chars
  <2> SUFFICES ASSUME NEW k \in 1 .. e PROVE m[k - 1] \in Chars
    OBVIOUS
  <2>1. k - 1 \in 0 .. e - 1 /\ k - 1 \in 0 .. MemSize - 1
    BY <1>1
  <2>2. m[k - 1] # NUL /\ m[k - 1] \in Cell
    BY <2>1 DEF Memories
  <2> QED
    BY <2>2 DEF Cell
<1>3. TextOf(m, e) \in [1 .. e -> Chars] /\ \A k \in 1 .. e : TextOf(m, e)[k] = m[k - 1]
  BY <1>2 DEF TextOf
<1>4. TextOf(m, e) \in Seq(Chars) /\ Len(TextOf(m, e)) = e
  BY <1>3
<1>5. \A i \in 0 .. e - 1 : TextOf(m, e)[i + 1] = m[i]
  <2> SUFFICES ASSUME NEW i \in 0 .. e - 1 PROVE TextOf(m, e)[i + 1] = m[i]
    OBVIOUS
  <2>1. i + 1 \in 1 .. e /\ (i + 1) - 1 = i
    OBVIOUS
  <2> QED
    BY <1>3, <2>1
<1> QED
  BY <1>3, <1>4, <1>5

\* A text has one end.
LEMMA OneEnd ==
    ASSUME NEW m, NEW e, NEW x, Text(m, e), Text(m, x)
    PROVE  e = x
<1>1. e \in Nat /\ x \in Nat /\ m[e] = NUL /\ m[x] = NUL
  BY DEF Text
<1>2. ~(e < x) /\ ~(x < e)
  BY <1>1 DEF Text
<1> QED
  BY <1>1, <1>2

-----------------------------------------------------------------------------
(* absolute_path: what becomes of the path, step by step *)

\* With the directory in place, the copy has what it starts from.
LEMMA StartFollows ==
    ASSUME PathsAssumption, Apart, Called, PathStarts, Start,
           \A k \in 1 .. Len(path) : mem[Input + k - 1] = path[k]
    PROVE  CopyFollows'
<1>1. /\ Len(cwd) \in Nat \ {0} /\ Len(cwd) <= Input
      /\ Len(path) \in Nat /\ PathEnd \in Nat /\ PathEnd < MemSize
      /\ Input \in Nat /\ MemSize \in Nat /\ PathEnd = Input + Len(path) /\ NUL # "/" /\ NUL # "." /\ "/" # "."
  BY CalledWith, PathNumbers DEF PathEnd
<1>2. /\ Skipped \in {0, 2} /\ Skipped <= Len(path)
      /\ Rooted => /\ Len(Asked) = Len(path) - Skipped
                   /\ \A k \in 1 .. Len(path) - Skipped : Asked[k] = path[Skipped + k]
      /\ ~Rooted => /\ Len(Asked) = Len(cwd) + (Len(path) - Skipped)
                    /\ \A k \in 1 .. Len(cwd) : Asked[k] = cwd[k]
                    /\ \A k \in 1 .. Len(path) - Skipped : Asked[Len(cwd) + k] = path[Skipped + k]
  BY AskedIs
<1>3. src = Input /\ dst = 0 /\ mem[PathEnd] = NUL
  <2>1. PathEnd \in src .. PathEnd
    BY <1>1 DEF PathStarts
  <2> QED
    BY <2>1 DEF PathStarts, PathUnread
<1>4. \A i \in Input .. PathEnd - 1 : mem[i] = path[i - Input + 1] /\ i - Input + 1 \in 1 .. Len(path) /\ mem[i] # NUL
  <2> SUFFICES ASSUME NEW i \in Input .. PathEnd - 1
               PROVE  mem[i] = path[i - Input + 1] /\ i - Input + 1 \in 1 .. Len(path) /\ mem[i] # NUL
    OBVIOUS
  <2>1. PICK k \in 1 .. Len(path) : k = i - Input + 1
    <3>1. i - Input + 1 \in 1 .. Len(path)
      BY <1>1
    <3> QED
      BY <3>1
  <2>2. mem[Input + k - 1] = path[k] /\ Input + k - 1 = i
    BY <1>1, <2>1
  <2>3. i \in src .. PathEnd /\ i # PathEnd
    BY <1>1, <1>3
  <2> QED
    BY <2>1, <2>2, <2>3 DEF PathStarts, PathUnread
<1>5. At(src, <<".", "/">>) <=> Skipped = 2
  <2>1. ASSUME At(src, <<".", "/">>)
        PROVE  Skipped = 2
    <3>1. mem[Input] = "." /\ mem[Input + 1] = "/"
      BY <1>1, <1>3, <2>1, PatternsAt
    <3>2. PathEnd # Input /\ PathEnd # Input + 1
      BY <1>1, <1>3, <3>1
    <3>3. Input \in Input .. PathEnd - 1 /\ Input + 1 \in Input .. PathEnd - 1 /\ Len(path) >= 2
      BY <1>1, <3>2
    <3>4. path[Input - Input + 1] = "." /\ path[(Input + 1) - Input + 1] = "/"
      BY <1>4, <3>1, <3>3
    <3>5. Input - Input + 1 = 1 /\ (Input + 1) - Input + 1 = 2
      BY <1>1
    <3> QED
      BY <3>3, <3>4, <3>5 DEF Skipped
  <2>2. ASSUME Skipped = 2
        PROVE  At(src, <<".", "/">>)
    <3>1. Len(path) >= 2 /\ path[1] = "." /\ path[2] = "/"
      BY <2>2 DEF Skipped
    <3>2. 1 \in 1 .. Len(path) /\ 2 \in 1 .. Len(path) /\ Input + 1 - 1 = Input /\ Input + 2 - 1 = Input + 1
      BY <1>1, <3>1
    <3>3. mem[src] = "." /\ mem[src + 1] = "/"
      <4>1. mem[Input + 1 - 1] = path[1] /\ mem[Input + 2 - 1] = path[2]
        BY <3>2
      <4> QED
        BY <1>3, <3>1, <3>2, <4>1
    <3> DEFINE s == <<".", "/">>
    <3>4. Len(s) = 2 /\ s[1] = "." /\ s[2] = "/"
      OBVIOUS
    <3> HIDE DEF s
    <3>5. \A k \in 1 .. Len(s) : src + k - 1 < MemSize /\ mem[src + k - 1] = s[k]
      <4>1. \A k \in 1 .. Len(s) : k = 1 \/ k = 2
        BY <3>4
      <4>2. src + 1 - 1 = src /\ src + 2 - 1 = src + 1 /\ src < MemSize /\ src + 1 < MemSize
        BY <1>1, <1>3, <3>1
      <4> QED
        BY <3>3, <3>4, <4>1, <4>2
    <3>6. At(src, s)
      BY <3>5 DEF At
    <3> QED
      BY <3>6 DEF s
  <2> QED
    BY <2>1, <2>2
<1> DEFINE p == IF At(src, <<".", "/">>) THEN src + 2 ELSE src
<1>6. p = Input + Skipped
  BY <1>1, <1>2, <1>3, <1>5
<1>7. /\ src' = p /\ UNCHANGED <<last, cwd, path>>
      /\ \/ mem[p] = "/" /\ UNCHANGED <<mem, dst>>
         \/ /\ mem[p] # "/" /\ dst' = Len(cwd)
            /\ mem' = [i \in DOMAIN mem |-> IF i < Len(cwd) THEN cwd[i + 1] ELSE mem[i]]
  BY DEF Start, BehindCwd
<1> HIDE DEF p
<1>8. mem[p] = "/" <=> Rooted
  <2>1. CASE Skipped < Len(path)
    <3>1. p \in Input .. PathEnd - 1 /\ p - Input + 1 = Skipped + 1
      BY <1>1, <1>2, <1>6, <2>1
    <3> QED
      BY <1>4, <2>1, <3>1 DEF Rooted
  <2>2. CASE ~(Skipped < Len(path))
    <3>1. p = PathEnd
      BY <1>1, <1>2, <1>6, <2>2
    <3> QED
      BY <1>1, <1>3, <2>2, <3>1 DEF Rooted
  <2> QED
    BY <2>1, <2>2
<1>9. Asked' = Asked /\ PathEnd' = PathEnd
  BY <1>7 DEF Asked, PathEnd
<1>10. ASSUME NEW i \in p .. PathEnd - 1
       PROVE  /\ mem[i] = path[Skipped + (i - p + 1)]
              /\ i - p + 1 \in 1 .. Len(path) - Skipped
  <2>1. i \in Input .. PathEnd - 1
    BY <1>1, <1>2, <1>6
  <2>2. i - Input + 1 = Skipped + (i - p + 1)
    BY <1>1, <1>2, <1>6
  <2>3. i - p + 1 \in 1 .. Len(path) - Skipped
    BY <1>1, <1>2, <1>6
  <2> QED
    BY <1>4, <2>1, <2>2, <2>3
<1>11. CASE Rooted
  <2>1. mem' = mem /\ dst' = 0 /\ src' = p
    BY <1>3, <1>7, <1>8, <1>11
  <2>2. Len(Asked) = 0 + (PathEnd - p)
    BY <1>1, <1>2, <1>6, <1>11
  <2>3. \A i \in p .. PathEnd - 1 : mem[i] = Asked[0 + (i - p) + 1]
    <3> SUFFICES ASSUME NEW i \in p .. PathEnd - 1 PROVE mem[i] = Asked[0 + (i - p) + 1]
      OBVIOUS
    <3>1. 0 + (i - p) + 1 = i - p + 1
      BY <1>1, <1>2, <1>6
    <3>2. PICK k \in 1 .. Len(path) - Skipped : k = i - p + 1
      BY <1>10
    <3>3. Asked[k] = path[Skipped + k]
      BY <1>2, <1>11
    <3> QED
      BY <1>10, <3>1, <3>2, <3>3
  <2>4. \A k \in 1 .. dst' : FALSE
    BY <2>1
  <2> QED
    BY <1>9, <2>1, <2>2, <2>3, <2>4 DEF CopyFollows
<1>12. CASE ~Rooted
  <2>1. /\ dst' = Len(cwd) /\ src' = p
        /\ mem' = [i \in 0 .. MemSize - 1 |-> IF i < Len(cwd) THEN cwd[i + 1] ELSE mem[i]]
    BY <1>7, <1>8, <1>12 DEF Called, Memories
  <2>2. Len(Asked) = Len(cwd) + (PathEnd - p)
    BY <1>1, <1>2, <1>6, <1>12
  <2>3. \A k \in 1 .. Len(cwd) : mem'[k - 1] = Asked[k]
    <3> SUFFICES ASSUME NEW k \in 1 .. Len(cwd) PROVE mem'[k - 1] = Asked[k]
      OBVIOUS
    <3>1. k - 1 \in 0 .. MemSize - 1 /\ k - 1 < Len(cwd) /\ (k - 1) + 1 = k
      BY <1>1
    <3>2. mem'[k - 1] = cwd[k]
      BY <2>1, <3>1
    <3> QED
      BY <1>2, <1>12, <3>2
  <2>4. \A i \in p .. PathEnd - 1 : mem'[i] = Asked[Len(cwd) + (i - p) + 1]
    <3> SUFFICES ASSUME NEW i \in p .. PathEnd - 1 PROVE mem'[i] = Asked[Len(cwd) + (i - p) + 1]
      OBVIOUS
    <3>1. i \in 0 .. MemSize - 1 /\ ~(i < Len(cwd)) /\ Len(cwd) + (i - p) + 1 = Len(cwd) + (i - p + 1)
      BY <1>1, <1>2, <1>6
    <3>2. mem'[i] = mem[i]
      BY <2>1, <3>1
    <3>3. PICK k \in 1 .. Len(path) - Skipped : k = i - p + 1
      BY <1>10
    <3>4. Asked[Len(cwd) + k] = path[Skipped + k]
      BY <1>2, <1>12
    <3> QED
      BY <1>10, <3>1, <3>2, <3>3, <3>4
  <2> QED
    BY <1>9, <2>1, <2>2, <2>3, <2>4 DEF CopyFollows
<1> QED
  BY <1>11, <1>12

\* A character is copied; with the last of them the text is what was asked for.
LEMMA CopyGoesOn ==
    ASSUME PathsAssumption, Apart, Called, PathCopied, CopyFollows, CopyInput
    PROVE  (pc' = "copy" => CopyFollows') /\ (pc' = "collapse" => CollapseFollows')
<1>1. /\ PathEnd \in Nat /\ PathEnd < MemSize /\ MemSize \in Nat /\ Input \in Nat
      /\ Asked \in Seq(Chars) /\ Len(Asked) \in Nat \ {0}
  BY CalledWith, PathNumbers, AskedIs
<1>2. /\ src \in Nat /\ dst \in Nat /\ src <= PathEnd /\ dst <= src
      /\ \A i \in src .. PathEnd : mem[i] = NUL <=> i = PathEnd
  BY DEF PathCopied, PathUnread
<1>3. /\ Len(Asked) = dst + (PathEnd - src)
      /\ \A k \in 1 .. dst : mem[k - 1] = Asked[k]
      /\ \A i \in src .. PathEnd - 1 : mem[i] = Asked[dst + (i - src) + 1]
  BY DEF CopyFollows
<1>4. mem \in Memories /\ dst \in 0 .. MemSize - 1 /\ mem[src] \in Cell
  BY <1>1, <1>2 DEF Called, Memories
<1>5. mem' = [mem EXCEPT ![dst] = mem[src]] /\ UNCHANGED <<last, cwd, path>>
  BY DEF CopyInput
<1>6. /\ mem' \in Memories /\ mem'[dst] = mem[src]
      /\ \A i \in 0 .. MemSize - 1 : i # dst => mem'[i] = mem[i]
  BY <1>1, <1>4, <1>5, CellWritten
<1>7. Asked' = Asked /\ PathEnd' = PathEnd
  BY <1>5 DEF Asked, PathEnd
<1>8. \A k \in 1 .. dst : mem'[k - 1] = Asked[k]
  <2> SUFFICES ASSUME NEW k \in 1 .. dst PROVE mem'[k - 1] = Asked[k]
    OBVIOUS
  <2>1. k - 1 \in 0 .. MemSize - 1 /\ k - 1 # dst
    BY <1>1, <1>2
  <2> QED
    BY <1>3, <1>6, <2>1
<1>9. CASE mem[src] = NUL
  <2>1. pc' = "collapse" /\ src' = 0 /\ dst' = 0
    BY <1>9 DEF CopyInput
  <2>2. src = PathEnd
    BY <1>1, <1>2, <1>9
  <2>3. Len(Asked) = dst
    BY <1>1, <1>2, <1>3, <2>2
  <2>4. \A i \in 0 .. Len(Asked) - 1 : mem'[i] = Asked[i + 1]
    <3> SUFFICES ASSUME NEW i \in 0 .. Len(Asked) - 1 PROVE mem'[i] = Asked[i + 1]
      OBVIOUS
    <3>1. PICK k \in 1 .. dst : k = i + 1
      <4>1. i + 1 \in 1 .. dst
        BY <2>3
      <4> QED
        BY <4>1
    <3>2. k - 1 = i
      BY <3>1
    <3> QED
      BY <1>8, <3>1, <3>2
  <2>5. Walk(TextOf(mem', 0))[0] = Walk(Asked)[0]
    <3>1. PICK z \in Nat : z = 0
      OBVIOUS
    <3>2. TextOf(mem', z) \in Seq(Chars)
      <4>1. z < MemSize /\ \A i \in 0 .. z - 1 : mem'[i] # NUL
        BY <1>1, <1>2, <3>1
      <4> QED
        BY <1>6, <4>1, TextIs
    <3> QED
      BY <1>1, <3>1, <3>2, WalkSteps
  <2> QED
    BY <1>1, <1>6, <1>7, <1>9, <2>1, <2>3, <2>4, <2>5 DEF CollapseFollows
<1>10. CASE mem[src] # NUL
  <2>1. pc' = pc /\ pc = "copy" /\ src' = src + 1 /\ dst' = dst + 1
    BY <1>10 DEF CopyInput
  <2>2. src # PathEnd /\ src + 1 <= PathEnd
    BY <1>1, <1>2, <1>10
  <2>3. Len(Asked) = (dst + 1) + (PathEnd - (src + 1))
    BY <1>1, <1>2, <1>3
  <2>4. mem[src] = Asked[dst + 1]
    <3>1. src \in src .. PathEnd - 1 /\ dst + (src - src) + 1 = dst + 1
      BY <1>1, <1>2, <2>2
    <3>2. mem[src] = Asked[dst + (src - src) + 1]
      BY <1>3, <3>1
    <3> QED
      BY <3>1, <3>2
  <2>5. \A k \in 1 .. dst + 1 : mem'[k - 1] = Asked[k]
    <3> SUFFICES ASSUME NEW k \in 1 .. dst + 1 PROVE mem'[k - 1] = Asked[k]
      OBVIOUS
    <3>1. CASE k = dst + 1
      <4>1. k - 1 = dst
        BY <1>2, <3>1
      <4> QED
        BY <1>6, <2>4, <3>1, <4>1
    <3>2. CASE k # dst + 1
      <4>1. k \in 1 .. dst
        BY <1>2, <3>2
      <4> QED
        BY <1>8, <4>1
    <3> QED
      BY <3>1, <3>2
  <2>6. \A i \in src + 1 .. PathEnd - 1 : mem'[i] = Asked[(dst + 1) + (i - (src + 1)) + 1]
    <3> SUFFICES ASSUME NEW i \in src + 1 .. PathEnd - 1
                 PROVE  mem'[i] = Asked[(dst + 1) + (i - (src + 1)) + 1]
      OBVIOUS
    <3>1. /\ i \in src .. PathEnd - 1 /\ i \in 0 .. MemSize - 1 /\ i # dst
          /\ (dst + 1) + (i - (src + 1)) + 1 = dst + (i - src) + 1
      BY <1>1, <1>2
    <3> QED
      BY <1>3, <1>6, <3>1
  <2> QED
    BY <1>7, <2>1, <2>3, <2>5, <2>6 DEF CopyFollows
<1> QED
  BY <1>9, <1>10

\* The text of one character more.
LEMMA TextGrows ==
    ASSUME PathsAssumption, NEW m \in Memories, NEW w \in Memories, NEW d \in Nat, d + 1 < MemSize,
           \A i \in 0 .. d - 1 : m[i] # NUL, \A i \in 0 .. d - 1 : w[i] = m[i]
    PROVE  /\ TextOf(w, d) = TextOf(m, d)
           /\ w[d] # NUL => Walk(TextOf(w, d + 1))[d + 1] = Take(Walk(TextOf(m, d))[d], w[d])
<1>1. MemSize \in Nat /\ d < MemSize /\ \A i \in 0 .. d - 1 : w[i] # NUL
  BY PathNumbers
<1>2. /\ TextOf(m, d) \in Seq(Chars) /\ Len(TextOf(m, d)) = d
      /\ \A k \in 1 .. d : TextOf(m, d)[k] = m[k - 1]
  BY <1>1, TextIs
<1>3. /\ TextOf(w, d) \in Seq(Chars) /\ Len(TextOf(w, d)) = d
      /\ \A k \in 1 .. d : TextOf(w, d)[k] = w[k - 1]
  BY <1>1, TextIs
<1>4. \A k \in 1 .. d : w[k - 1] = m[k - 1]
  OBVIOUS
<1>5. TextOf(w, d) = TextOf(m, d)
  BY <1>2, <1>3, <1>4, SeqEqual
<1>6. ASSUME w[d] # NUL
      PROVE  Walk(TextOf(w, d + 1))[d + 1] = Take(Walk(TextOf(m, d))[d], w[d])
  <2>1. PICK n \in Nat : n = d + 1
    OBVIOUS
  <2>2. n < MemSize /\ \A i \in 0 .. n - 1 : w[i] # NUL
    <3>1. \A i \in 0 .. n - 1 : i = d \/ i \in 0 .. d - 1
      BY <2>1
    <3> QED
      BY <1>1, <1>6, <2>1, <3>1
  <2>3. /\ TextOf(w, n) \in Seq(Chars) /\ Len(TextOf(w, n)) = n
        /\ \A k \in 1 .. n : TextOf(w, n)[k] = w[k - 1]
    BY <2>2, TextIs
  <2> DEFINE s == TextOf(w, n)
             t == TextOf(w, d)
  <2>4. /\ s \in Seq(Chars) /\ t \in Seq(Chars) /\ 0 \in 0 .. Len(s) /\ 0 \in 0 .. Len(t)
        /\ 0 + d <= Len(s) /\ 0 + d <= Len(t)
    BY <1>3, <2>1, <2>3
  <2>5. \A k \in 1 .. d : s[0 + k] = t[0 + k]
    <3> SUFFICES ASSUME NEW k \in 1 .. d PROVE s[0 + k] = t[0 + k]
      OBVIOUS
    <3>1. k \in 1 .. n /\ 0 + k = k
      BY <2>1
    <3> QED
      BY <1>3, <2>3, <3>1
  <2>6. n \in 1 .. Len(s) /\ n - 1 = d /\ s[n] = w[d]
    BY <2>1, <2>3
  <2> HIDE DEF s, t
  <2>7. Walk(s)[0] = Walk(t)[0]
    BY <2>4, WalkSteps
  <2>8. Walk(s)[0 + d] = Walk(t)[0 + d]
    <3>1. Alike(s, 0, t, 0, d)
      BY <2>4, <2>5 DEF Alike
    <3> QED
      BY <2>4, <2>7, <3>1, WalksMeet
  <2>9. Walk(s)[n] = Take(Walk(s)[n - 1], s[n])
    BY <2>4, <2>6, WalkSteps
  <2>10. Walk(s)[n] = Take(Walk(t)[d], w[d])
    BY <2>6, <2>8, <2>9
  <2> QED
    BY <1>5, <2>1, <2>10 DEF s, t
<1> QED
  BY <1>5, <1>6

\* A character is kept, or it is a slash behind a slash.
LEMMA CollapseGoesOn ==
    ASSUME PathsAssumption, Apart, PathInv, PathInv', CollapseFollows, Collapse
    PROVE  /\ pc' = "collapse" => CollapseFollows'
           /\ pc' = "scan" => \E e \in Nat : Text(mem', e) /\ SameParts(e)' /\ SameEnd(e)'
<1>1. PICK e \in Nat : Collapsing(e)
  BY DEF PathInv, Collapse
<1>2. /\ Called /\ Room \in Nat /\ Room < MemSize /\ MemSize \in Nat
      /\ NUL # "/" /\ NUL \in Cell /\ NUL \notin Chars
      /\ Asked \in Seq(Chars) /\ Len(Asked) \in Nat \ {0}
  BY CalledWith, PathNumbers, AskedIs DEF PathInv
<1>3. /\ src \in Nat /\ dst \in Nat /\ e <= Room /\ src <= e /\ dst <= src
      /\ mem[0] = "/" /\ mem[e] = NUL
      /\ \A i \in 0 .. dst - 1 : mem[i] # NUL
      /\ \A i \in src .. e - 1 : mem[i] # NUL
      /\ dst = 0 => src = 0 /\ last = NUL
      /\ dst # 0 => last = mem[dst - 1]
  BY <1>1 DEF Collapsing
<1>4. /\ src <= Len(Asked) /\ mem[Len(Asked)] = NUL
      /\ \A i \in src .. Len(Asked) - 1 : mem[i] = Asked[i + 1]
      /\ Walk(TextOf(mem, dst))[dst] = Walk(Asked)[src]
      /\ src # 0 => last = Asked[src]
  BY DEF CollapseFollows
<1>5. \A i \in src .. Len(Asked) - 1 : i + 1 \in 1 .. Len(Asked) /\ mem[i] \in Chars /\ mem[i] # NUL
  <2> SUFFICES ASSUME NEW i \in src .. Len(Asked) - 1
               PROVE  i + 1 \in 1 .. Len(Asked) /\ mem[i] \in Chars /\ mem[i] # NUL
    OBVIOUS
  <2>1. i + 1 \in 1 .. Len(Asked)
    BY <1>2, <1>3
  <2>2. Asked[i + 1] \in Chars
    BY <1>2, <2>1
  <2> QED
    BY <1>2, <1>4, <2>1, <2>2
<1>6. Len(Asked) = e
  <2>1. ~(Len(Asked) < e)
    BY <1>2, <1>3, <1>4
  <2>2. ~(e < Len(Asked))
    BY <1>2, <1>3, <1>5
  <2> QED
    BY <1>2, <2>1, <2>2
<1>7. mem \in Memories /\ dst \in 0 .. MemSize - 1 /\ mem[src] \in Cell
  BY <1>2, <1>3 DEF Called, Memories
<1>8. UNCHANGED <<cwd, path>> /\ Asked' = Asked
  BY DEF Collapse, Asked
<1>9. dst + 1 < MemSize \/ mem[src] = NUL
  <2>1. mem[src] = NUL \/ src # e
    BY <1>3
  <2> QED
    BY <1>2, <1>3, <2>1
<1>10. CASE mem[src] = NUL
  <2>1. mem' = [mem EXCEPT ![dst] = NUL] /\ pc' = "scan" /\ src' = 0 /\ UNCHANGED <<dst, last>>
    BY <1>10 DEF Collapse
  <2>2. /\ mem' \in Memories /\ mem'[dst] = NUL
        /\ \A i \in 0 .. MemSize - 1 : i # dst => mem'[i] = mem[i]
    BY <1>2, <1>7, <2>1, CellWritten
  <2>3. src = Len(Asked)
    BY <1>2, <1>3, <1>5, <1>10, <1>4
  <2>4. dst # 0
    BY <1>2, <1>3, <2>3
  <2>5. \A i \in 0 .. dst - 1 : mem'[i] = mem[i] /\ mem'[i] # NUL
    BY <1>2, <1>3, <1>7, <2>2
  <2>6. PICK x \in Nat : Text(mem', x)
    BY <2>1 DEF PathInv, Scanned
  <2>7. x = dst
    <3>1. x \in Nat /\ mem'[x] = NUL /\ \A i \in 0 .. x - 1 : mem'[i] # NUL
      BY <2>6 DEF Text
    <3>2. ~(x < dst) /\ ~(dst < x)
      BY <1>3, <2>2, <2>5, <3>1
    <3> QED
      BY <1>3, <3>1, <3>2
  <2>8. TextOf(mem', dst) = TextOf(mem, dst) /\ Len(TextOf(mem, dst)) = dst
    <3>1. \A i \in 0 .. dst - 1 : mem'[i] # NUL /\ mem[i] # NUL
      BY <1>3, <2>5
    <3>2. dst < MemSize
      BY <1>2, <1>7
    <3>3. /\ TextOf(mem', dst) \in Seq(Chars) /\ Len(TextOf(mem', dst)) = dst
          /\ \A k \in 1 .. dst : TextOf(mem', dst)[k] = mem'[k - 1]
      BY <1>3, <2>2, <3>1, <3>2, TextIs
    <3>4. /\ TextOf(mem, dst) \in Seq(Chars) /\ Len(TextOf(mem, dst)) = dst
          /\ \A k \in 1 .. dst : TextOf(mem, dst)[k] = mem[k - 1]
      BY <1>3, <1>7, <3>1, <3>2, TextIs
    <3>5. \A k \in 1 .. dst : mem'[k - 1] = mem[k - 1]
      BY <1>3, <2>5
    <3> QED
      BY <3>3, <3>4, <3>5, SeqEqual
  <2>9. Components(TextOf(mem', dst)) = Components(Asked)
    BY <1>4, <2>3, <2>8 DEF Components
  <2>10. (mem'[dst - 1] = "/") <=> (Last(Asked) = "/")
    <3>1. dst - 1 \in 0 .. dst - 1 /\ src # 0
      BY <1>2, <1>3, <2>3, <2>4
    <3>2. mem'[dst - 1] = Asked[src]
      BY <1>3, <1>4, <2>4, <2>5, <3>1
    <3> QED
      BY <2>3, <3>2 DEF Last
  <2>11. Text(mem', x) /\ SameParts(x)' /\ SameEnd(x)'
    BY <1>8, <2>6, <2>7, <2>9, <2>10 DEF SameParts, SameEnd
  <2> QED
    BY <2>1, <2>11
<1>11. CASE mem[src] # NUL
  <2>1. src # e /\ src + 1 <= Len(Asked) /\ src \in src .. Len(Asked) - 1 /\ src + 1 \in 1 .. Len(Asked)
    BY <1>2, <1>3, <1>6, <1>11
  <2>2. mem[src] = Asked[src + 1]
    BY <1>4, <2>1
  <2>3. Walk(Asked)[src + 1] = Take(Walk(Asked)[src], mem[src])
    <3>1. (src + 1) - 1 = src
      BY <1>3
    <3> QED
      BY <1>2, <2>1, <2>2, <3>1, WalkSteps
  <2>4. CASE Kept(mem[src])
    <3>1. /\ mem' = [mem EXCEPT ![dst] = mem[src]] /\ pc' = pc /\ pc = "collapse"
          /\ src' = src + 1 /\ dst' = dst + 1 /\ last' = mem[src]
      BY <1>11, <2>4 DEF Collapse
    <3>2. /\ mem' \in Memories /\ mem'[dst] = mem[src]
          /\ \A i \in 0 .. MemSize - 1 : i # dst => mem'[i] = mem[i]
      BY <1>2, <1>7, <3>1, CellWritten
    <3>3. \A i \in 0 .. dst - 1 : mem'[i] = mem[i]
      BY <1>2, <1>3, <1>7, <3>2
    <3>4. Walk(TextOf(mem', dst + 1))[dst + 1] = Take(Walk(TextOf(mem, dst))[dst], mem[src])
      <4>1. mem'[dst] # NUL /\ dst + 1 < MemSize
        BY <1>9, <1>11, <3>2
      <4>2. Walk(TextOf(mem', dst + 1))[dst + 1] = Take(Walk(TextOf(mem, dst))[dst], mem'[dst])
        BY <1>3, <1>7, <3>2, <3>3, <4>1, TextGrows
      <4> QED
        BY <3>2, <4>2
    <3>5. Walk(TextOf(mem', dst + 1))[dst + 1] = Walk(Asked)[src + 1]
      BY <1>4, <2>3, <3>4
    <3>6. \A i \in src + 1 .. Len(Asked) : i \in 0 .. MemSize - 1 /\ i # dst /\ mem'[i] = mem[i]
      <4>1. \A i \in src + 1 .. Len(Asked) : i \in 0 .. MemSize - 1 /\ i # dst
        BY <1>2, <1>3, <1>6
      <4> QED
        BY <3>2, <4>1
    <3>7. mem'[Len(Asked)] = NUL /\ \A i \in src + 1 .. Len(Asked) - 1 : mem'[i] = Asked[i + 1]
      <4>1. Len(Asked) \in src + 1 .. Len(Asked)
        BY <1>2, <1>3, <2>1
      <4>2. \A i \in src + 1 .. Len(Asked) - 1 : i \in src + 1 .. Len(Asked) /\ i \in src .. Len(Asked) - 1
        BY <1>2, <1>3
      <4> QED
        BY <1>4, <3>6, <4>1, <4>2
    <3>8. CollapseFollows'
      BY <1>8, <2>1, <2>2, <3>1, <3>5, <3>7 DEF CollapseFollows
    <3> QED
      BY <3>1, <3>8
  <2>5. CASE ~Kept(mem[src])
    <3>1. src' = src + 1 /\ UNCHANGED <<mem, dst, last, pc>> /\ pc = "collapse"
      BY <1>11, <2>5 DEF Collapse
    <3>2. mem[src] = "/" /\ last = "/"
      BY <2>5 DEF Kept
    <3>3. src # 0 /\ src \in 1 .. Len(Asked) - 1 /\ Asked[src] = "/" /\ Asked[src + 1] = "/"
      BY <1>2, <1>3, <1>4, <2>1, <2>2, <3>2
    <3>4. Walk(Asked)[src + 1] = Walk(Asked)[src]
      BY <1>2, <3>3, SlashSlash
    <3>5. CollapseFollows'
      <4>1. \A i \in src + 1 .. Len(Asked) - 1 : i \in src .. Len(Asked) - 1
        BY <1>2, <1>3
      <4> QED
        BY <1>4, <1>8, <2>1, <3>1, <3>2, <3>3, <3>4, <4>1 DEF CollapseFollows
    <3> QED
      BY <3>1, <3>5
  <2> QED
    BY <2>4, <2>5
<1> QED
  BY <1>10, <1>11

\* The text that is left when "/.." and the component in front of it are out.
LEMMA ScanGoesOn ==
    ASSUME PathsAssumption, Apart, Called, NEW e \in Nat, Scanned(e), SameParts(e), SameEnd(e), Scan
    PROVE  /\ pc' = "scan" => \E x \in Nat : Text(mem', x) /\ SameParts(x)' /\ SameEnd(x)'
           /\ pc' = "done" => \E x \in Nat : /\ Text(mem', x) /\ SameParts(x)'
                                             /\ Components(Asked') = <<>> \/ SameEnd(x)'
<1>1. /\ Room \in Nat /\ Room < MemSize /\ MemSize \in Nat
      /\ NUL # "/" /\ NUL # "." /\ "/" # "." /\ NUL \in Cell /\ "/" \in Cell /\ NUL \notin Chars
  BY CalledWith, PathNumbers
<1>2. /\ Text(mem, e) /\ e <= Room /\ src \in 0 .. e
      /\ \A i \in 0 .. src - 1 : ~UpAt(mem, i)
  BY DEF Scanned
<1>3. /\ mem[0] = "/" /\ mem[e] = NUL /\ e \in Nat \ {0}
      /\ \A i \in 0 .. e - 1 : mem[i] # NUL
      /\ \A i \in 0 .. e - 2 : ~(mem[i] = "/" /\ mem[i + 1] = "/")
  BY <1>2 DEF Text
<1>4. mem \in Memories /\ e < MemSize
  BY <1>1, <1>2 DEF Called
<1>5. Asked' = Asked
  BY DEF Asked, Scan
<1> DEFINE b == Before
           s == TextOf(mem, e)
<1>6. b \in 0 .. src /\ mem[b] = "/" /\ (b = src => src = 0) /\ \A i \in b + 1 .. src - 1 : mem[i] # "/"
  BY <1>2, <1>3, BeforeLast
<1>7. s \in Seq(Chars) /\ Len(s) = e /\ \A i \in 0 .. e - 1 : s[i + 1] = mem[i]
  BY <1>3, <1>4, TextIs
<1>8. Components(s) = Components(Asked) /\ ((mem[e - 1] = "/") <=> (Last(Asked) = "/"))
  BY DEF SameParts, SameEnd
<1> HIDE DEF b, s
<1>9. ASSUME src + 3 <= e, mem[src] = "/", mem[src + 1] = ".", mem[src + 2] = "."
      PROVE  /\ Walk(s)[b + 1].part = <<>> /\ (b = 0 => Walk(s)[b + 1].dirs = <<>>)
             /\ Into(Walk(s)[src + 3].dirs, Walk(s)[src + 3].part) = Walk(s)[b + 1].dirs
             /\ src + 4 <= e /\ s[src + 4] = "/" => Walk(s)[src + 4] = Walk(s)[b + 1]
  <2>1. s[1] = "/" /\ s[src + 1] = "/" /\ s[src + 2] = "." /\ s[src + 3] = "." /\ s[b + 1] = "/"
    <3>1. 0 \in 0 .. e - 1 /\ src \in 0 .. e - 1 /\ src + 1 \in 0 .. e - 1 /\ src + 2 \in 0 .. e - 1 /\ b \in 0 .. e - 1
      BY <1>2, <1>6, <1>9
    <3>2. 0 + 1 = 1 /\ (src + 1) + 1 = src + 2 /\ (src + 2) + 1 = src + 3
      BY <1>2
    <3>3. s[0 + 1] = mem[0] /\ s[src + 1] = mem[src] /\ s[(src + 1) + 1] = mem[src + 1]
      BY <1>7, <3>1
    <3>4. s[(src + 2) + 1] = mem[src + 2] /\ s[b + 1] = mem[b]
      BY <1>7, <3>1
    <3> QED
      BY <1>3, <1>6, <1>9, <3>2, <3>3, <3>4
  <2>2. \A k \in b + 2 .. src : s[k] # "/"
    <3> SUFFICES ASSUME NEW k \in b + 2 .. src PROVE s[k] # "/"
      OBVIOUS
    <3>1. PICK i \in b + 1 .. src - 1 : i = k - 1
      <4>1. k - 1 \in b + 1 .. src - 1
        BY <1>2, <1>6
      <4> QED
        BY <4>1
    <3>2. i \in 0 .. e - 1 /\ i + 1 = k
      BY <1>2, <1>6, <3>1
    <3> QED
      BY <1>6, <1>7, <3>1, <3>2
  <2>3. src # b + 1
    <3> SUFFICES ASSUME src = b + 1 PROVE FALSE
      OBVIOUS
    <3>1. b \in 0 .. e - 2
      BY <1>2, <1>6, <1>9
    <3> QED
      BY <1>3, <1>6, <1>9, <3>1
  <2>4. ~(src = b + 3 /\ s[b + 2] = "." /\ s[b + 3] = ".")
    <3> SUFFICES ASSUME src = b + 3, s[b + 2] = ".", s[b + 3] = "." PROVE FALSE
      OBVIOUS
    <3>1. b + 1 \in 0 .. e - 1 /\ b + 2 \in 0 .. e - 1 /\ (b + 1) + 1 = b + 2 /\ (b + 2) + 1 = b + 3
      BY <1>2, <1>6, <1>9
    <3>2. s[(b + 1) + 1] = mem[b + 1] /\ s[(b + 2) + 1] = mem[b + 2]
      BY <1>7, <3>1
    <3>3. mem[b + 1] = "." /\ mem[b + 2] = "." /\ mem[b + 3] = "/"
      BY <1>9, <3>1, <3>2
    <3>4. UpAt(mem, b)
      BY <1>6, <3>3 DEF UpAt
    <3>5. b \in 0 .. src - 1
      BY <1>6
    <3> QED
      BY <1>2, <3>4, <3>5
  <2>5. src \in Nat /\ src + 3 <= Len(s) /\ b \in 0 .. src /\ (b = src => src = 0)
    BY <1>2, <1>6, <1>7, <1>9
  <2> QED
    BY <1>7, <2>1, <2>2, <2>3, <2>4, <2>5, UpOut
<1>10. ASSUME NEW w \in Memories, NEW z \in Nat, z < MemSize, Text(w, z), b <= z, b <= e,
              \A i \in 0 .. b - 1 : w[i] = mem[i]
       PROVE  /\ TextOf(w, z) \in Seq(Chars) /\ Len(TextOf(w, z)) = z
              /\ \A i \in 0 .. z - 1 : TextOf(w, z)[i + 1] = w[i]
              /\ Walk(TextOf(w, z))[b] = Walk(s)[b]
  <2> DEFINE t == TextOf(w, z)
  <2>1. t \in Seq(Chars) /\ Len(t) = z /\ \A i \in 0 .. z - 1 : t[i + 1] = w[i]
    BY <1>10, TextIs DEF Text
  <2> HIDE DEF t
  <2>2. Walk(t)[0] = Walk(s)[0]
    BY <1>7, <2>1, WalkSteps
  <2>3. /\ 0 \in 0 .. Len(t) /\ 0 \in 0 .. Len(s) /\ 0 + b <= Len(t) /\ 0 + b <= Len(s) /\ b \in Nat
    BY <1>6, <1>7, <1>10, <2>1, <1>2
  <2>4. \A k \in 1 .. b : t[0 + k] = s[0 + k]
    <3> SUFFICES ASSUME NEW k \in 1 .. b PROVE t[0 + k] = s[0 + k]
      OBVIOUS
    <3>1. PICK i \in 0 .. b - 1 : i = k - 1
      <4>1. k - 1 \in 0 .. b - 1
        BY <2>3
      <4> QED
        BY <4>1
    <3>2. i \in 0 .. z - 1 /\ i \in 0 .. e - 1 /\ i + 1 = k /\ 0 + k = k
      BY <1>2, <1>10, <2>3, <3>1
    <3>3. t[i + 1] = w[i] /\ s[i + 1] = mem[i] /\ w[i] = mem[i]
      BY <1>7, <1>10, <2>1, <3>2
    <3> QED
      BY <3>2, <3>3
  <2>5. Walk(t)[0 + b] = Walk(s)[0 + b]
    <3>1. Alike(t, 0, s, 0, b)
      BY <2>3, <2>4 DEF Alike
    <3> QED
      BY <1>7, <2>1, <2>2, <3>1, WalksMeet
  <2>6. 0 + b = b
    BY <2>3
  <2> QED
    BY <2>1, <2>5, <2>6 DEF t
<1>11. CASE mem[src] = NUL /\ pc' = "done" /\ UNCHANGED <<mem, src>>
  <2>1. Text(mem', e) /\ SameParts(e)' /\ SameEnd(e)'
    BY <1>2, <1>5, <1>8, <1>11 DEF SameParts, SameEnd, s
  <2> QED
    BY <1>11, <2>1
<1>12. CASE mem[src] # NUL /\ ~UpHere /\ src' = src + 1 /\ UNCHANGED <<mem, pc>> /\ pc = "scan"
  <2>1. Text(mem', e) /\ SameParts(e)' /\ SameEnd(e)'
    BY <1>2, <1>5, <1>8, <1>12 DEF SameParts, SameEnd, s
  <2> QED
    BY <1>12, <2>1
<1>13. CASE /\ At(src, <<"/", ".", ".", "/">>) /\ pc' = pc /\ pc = "scan" /\ src' = 0
            /\ mem' = Stored(mem, StringAt(src + 3), b)
  <2>1. /\ mem[src] = "/" /\ mem[src + 1] = "." /\ mem[src + 2] = "." /\ mem[src + 3] = "/"
        /\ src + 3 < e /\ mem' \in Memories /\ Text(mem', b + (e - src - 3))
        /\ \A i \in 0 .. b - 1 : mem'[i] = mem[i]
        /\ \A i \in 0 .. e - src - 3 : mem'[b + i] = mem[src + 3 + i]
    <3>1. mem' = Stored(mem, StringAt(src + 3), Before)
      BY <1>13 DEF b
    <3> QED
      BY <1>13, <3>1, CutCells DEF b
  <2>2. PICK z \in Nat : z = b + (e - src - 3)
    <3>1. b + (e - src - 3) \in Nat
      BY <1>2, <1>6, <2>1
    <3> QED
      BY <3>1
  <2>3. z < MemSize /\ b + 1 <= z /\ z <= e /\ b + 1 <= e
    BY <1>1, <1>2, <1>6, <2>1, <2>2
  <2> DEFINE t == TextOf(mem', z)
  <2>4. t \in Seq(Chars) /\ Len(t) = z /\ (\A i \in 0 .. z - 1 : t[i + 1] = mem'[i]) /\ Walk(t)[b] = Walk(s)[b]
    <3>1. b <= z /\ b <= e /\ Text(mem', z)
      BY <1>6, <1>2, <2>1, <2>2, <2>3
    <3> QED
      BY <1>10, <2>1, <2>3, <3>1
  <2> HIDE DEF t
  <2>5. t[b + 1] = "/" /\ s[b + 1] = "/" /\ s[src + 4] = "/" /\ src + 4 <= e
    <3>1. 0 \in 0 .. e - src - 3 /\ b + 0 = b /\ src + 3 + 0 = src + 3 /\ (src + 3) + 1 = src + 4 /\ src + 4 <= e
      BY <1>2, <1>6, <2>1
    <3>2. mem'[b + 0] = mem[src + 3 + 0]
      BY <2>1, <3>1
    <3>3. b \in 0 .. z - 1 /\ b \in 0 .. e - 1 /\ src + 3 \in 0 .. e - 1
      BY <1>2, <1>6, <2>1, <2>3
    <3>4. t[b + 1] = mem'[b] /\ s[b + 1] = mem[b] /\ s[(src + 3) + 1] = mem[src + 3]
      BY <1>7, <2>4, <3>3
    <3> QED
      BY <1>6, <2>1, <3>1, <3>2, <3>4
  <2>6. Walk(t)[b + 1] = Walk(s)[b + 1]
    <3>1. b + 1 \in 1 .. Len(t) /\ b + 1 \in 1 .. Len(s) /\ (b + 1) - 1 = b
      BY <1>6, <1>7, <2>3, <2>4
    <3>2. Walk(t)[b + 1] = Take(Walk(t)[b], "/")
      BY <2>4, <2>5, <3>1, WalkSteps
    <3>3. Walk(s)[b + 1] = Take(Walk(s)[b], "/")
      BY <1>7, <2>5, <3>1, WalkSteps
    <3> QED
      BY <2>4, <3>2, <3>3
  <2>7. Walk(t)[b + 1] = Walk(s)[src + 4]
    BY <1>9, <2>1, <2>5, <2>6, <1>2
  <2>8. Walk(t)[z] = Walk(s)[e]
    <3>1. PICK n \in Nat : n = e - src - 4
      <4>1. e - src - 4 \in Nat
        BY <1>2, <2>5
      <4> QED
        BY <4>1
    <3>2. /\ b + 1 \in 0 .. Len(t) /\ src + 4 \in 0 .. Len(s)
          /\ (b + 1) + n = z /\ (src + 4) + n = e
      BY <1>2, <1>6, <1>7, <2>2, <2>3, <2>4, <2>5, <3>1
    <3>3. \A k \in 1 .. n : t[(b + 1) + k] = s[(src + 4) + k]
      <4> SUFFICES ASSUME NEW k \in 1 .. n PROVE t[(b + 1) + k] = s[(src + 4) + k]
        OBVIOUS
      <4>1. k \in 0 .. e - src - 3
        BY <1>2, <3>1
      <4>2. mem'[b + k] = mem[src + 3 + k]
        BY <2>1, <4>1
      <4>3. b + k \in 0 .. z - 1 /\ src + 3 + k \in 0 .. e - 1
        BY <1>2, <1>6, <2>2, <3>1
      <4>4. t[(b + k) + 1] = mem'[b + k] /\ s[(src + 3 + k) + 1] = mem[src + 3 + k]
        BY <1>7, <2>4, <4>3
      <4>5. (b + k) + 1 = (b + 1) + k /\ (src + 3 + k) + 1 = (src + 4) + k
        BY <1>2, <1>6
      <4> QED
        BY <4>2, <4>4, <4>5
    <3>4. (b + 1) + n <= Len(t) /\ (src + 4) + n <= Len(s)
      BY <1>7, <2>4, <3>2
    <3>5. Walk(t)[(b + 1) + n] = Walk(s)[(src + 4) + n]
      <4>1. Alike(t, b + 1, s, src + 4, n)
        BY <3>2, <3>3, <3>4 DEF Alike
      <4> QED
        BY <1>7, <2>4, <2>7, <4>1, WalksMeet
    <3> QED
      BY <3>2, <3>5
  <2>9. Components(t) = Components(s)
    BY <1>7, <2>4, <2>8 DEF Components
  <2>10. mem'[z - 1] = mem[e - 1]
    <3>1. PICK i \in 0 .. e - src - 3 : i = e - src - 4
      <4>1. e - src - 4 \in 0 .. e - src - 3
        BY <1>2, <2>5
      <4> QED
        BY <4>1
    <3>2. mem'[b + i] = mem[src + 3 + i]
      BY <2>1
    <3>3. b + i = z - 1 /\ src + 3 + i = e - 1
      BY <1>2, <1>6, <2>2, <3>1
    <3> QED
      BY <3>2, <3>3
  <2>11. Text(mem', z) /\ SameParts(z)' /\ SameEnd(z)'
    BY <1>5, <1>8, <2>1, <2>2, <2>9, <2>10 DEF SameParts, SameEnd, t
  <2> QED
    BY <1>13, <2>11
<1>14. CASE /\ At(src, <<"/", ".", ".", NUL>>) /\ pc' = "done" /\ UNCHANGED src
            /\ mem' = Stored(mem, IF b = 0 THEN <<"/">> ELSE <<>>, b)
  <2>1. /\ mem[src] = "/" /\ mem[src + 1] = "." /\ mem[src + 2] = "." /\ src + 3 = e
        /\ mem' \in Memories
        /\ b = 0 => Text(mem', 1)
        /\ b # 0 => b < e /\ Text(mem', b) /\ \A i \in 0 .. b - 1 : mem'[i] = mem[i]
    <3>1. mem' = Stored(mem, IF Before = 0 THEN <<"/">> ELSE <<>>, Before)
      BY <1>14 DEF b
    <3> QED
      BY <1>14, <3>1, CutEnd DEF b
  <2>2. Components(s) = Walk(s)[b + 1].dirs /\ Walk(s)[b + 1].part = <<>> /\ (b = 0 => Walk(s)[b + 1].dirs = <<>>)
    <3>1. src + 3 <= e
      BY <1>2, <2>1
    <3> QED
      BY <1>7, <1>9, <2>1, <3>1 DEF Components
  <2>3. CASE b = 0
    <3>1. Components(Asked) = <<>>
      BY <1>8, <2>2, <2>3
    <3>2. Components(TextOf(mem', 1)) = <<>>
      <4>1. PICK z \in Nat : z = 1
        OBVIOUS
      <4>2. z < MemSize /\ \A i \in 0 .. z - 1 : mem'[i] # NUL
        BY <1>1, <1>2, <2>1, <2>3, <4>1 DEF Text
      <4>3. /\ TextOf(mem', z) \in Seq(Chars) /\ Len(TextOf(mem', z)) = z
            /\ \A i \in 0 .. z - 1 : TextOf(mem', z)[i + 1] = mem'[i]
        BY <2>1, <4>2, TextIs
      <4> DEFINE t == TextOf(mem', z)
      <4>4. t[1] = "/"
        <5>1. 0 \in 0 .. z - 1 /\ 0 + 1 = 1 /\ mem'[0] = "/"
          BY <2>1, <2>3, <4>1 DEF Text
        <5>2. t[0 + 1] = mem'[0]
          BY <4>3, <5>1
        <5> QED
          BY <5>1, <5>2
      <4>5. t \in Seq(Chars) /\ Len(t) = 1 /\ 1 \in 1 .. Len(t) /\ 1 - 1 = 0
        BY <4>1, <4>3
      <4> HIDE DEF t
      <4>6. Walk(t)[1] = Take(Begin, "/")
        BY <4>4, <4>5, WalkSteps
      <4>7. Walk(t)[1] = [dirs |-> <<>>, part |-> <<>>]
        BY <4>6 DEF Take, Begin, Into
      <4>8. Components(t) = <<>>
        BY <4>5, <4>7 DEF Components, Into
      <4> QED
        BY <4>1, <4>8 DEF t
    <3>3. Text(mem', 1) /\ SameParts(1)'
      BY <1>5, <2>1, <2>3, <3>1, <3>2 DEF SameParts
    <3> QED
      BY <1>5, <1>14, <3>1, <3>3
  <2>4. CASE b # 0
    <3>1. b \in Nat \ {0} /\ b < e /\ b < MemSize /\ Text(mem', b) /\ \A i \in 0 .. b - 1 : mem'[i] = mem[i]
      BY <1>1, <1>2, <1>6, <2>1, <2>4
    <3> DEFINE t == TextOf(mem', b)
    <3>2. PICK z \in Nat : z = b
      BY <3>1
    <3>3. t \in Seq(Chars) /\ Len(t) = b /\ Walk(t)[b] = Walk(s)[b]
      <4>1. z < MemSize /\ Text(mem', z) /\ b <= z /\ b <= e
        BY <3>1, <3>2
      <4>2. /\ TextOf(mem', z) \in Seq(Chars) /\ Len(TextOf(mem', z)) = z
            /\ Walk(TextOf(mem', z))[b] = Walk(s)[b]
        BY <1>10, <2>1, <3>1, <4>1
      <4> QED
        BY <3>2, <4>2
    <3> HIDE DEF t
    <3>4. Components(t) = Components(s)
      <4>1. b + 1 \in 1 .. Len(s) /\ (b + 1) - 1 = b /\ s[b + 1] = "/"
        <5>1. b \in 0 .. e - 1
          BY <3>1
        <5> QED
          BY <1>6, <1>7, <3>1, <5>1
      <4>2. Walk(s)[b + 1] = Take(Walk(s)[b], "/")
        BY <1>7, <4>1, WalkSteps
      <4>3. Walk(s)[b + 1].dirs = Into(Walk(s)[b].dirs, Walk(s)[b].part)
        BY <4>2 DEF Take
      <4> QED
        BY <2>2, <3>3, <4>3 DEF Components
    <3>5. mem'[b - 1] # "/" /\ mem[e - 1] # "/"
      <4>1. b - 1 \in 0 .. b - 1 /\ b - 1 \in 0 .. e - 2 /\ (b - 1) + 1 = b /\ e - 1 = src + 2
        BY <1>2, <2>1, <3>1
      <4>2. mem'[b - 1] = mem[b - 1] /\ mem[b - 1] # "/"
        BY <1>3, <1>6, <3>1, <4>1
      <4> QED
        BY <1>1, <2>1, <4>1, <4>2
    <3>6. Text(mem', z) /\ SameParts(z)' /\ SameEnd(z)'
      BY <1>5, <1>8, <3>1, <3>2, <3>4, <3>5 DEF SameParts, SameEnd, t
    <3> QED
      BY <1>14, <3>6
  <2> QED
    BY <2>3, <2>4
<1> QED
  BY <1>11, <1>12, <1>13, <1>14 DEF Scan, AfterUp, Restart, b

-----------------------------------------------------------------------------
(* absolute_path: the path is followed all along *)

\* At first the path is where the caller put it.
LEMMA FollowsBegins ==
    ASSUME PathsAssumption, Apart, Init
    PROVE  Follows
<1>1. pc = "start" /\ mem = Stored([i \in 0 .. MemSize - 1 |-> NUL], path, Input)
  BY DEF Init
<1>2. PICK n \in 0 .. MaxLen : path \in [1 .. n -> Chars]
  BY DEF Init
<1>3. MaxLen \in Nat /\ Input \in Nat /\ MemSize \in Nat /\ Input + MaxLen < MemSize
  BY PathNumbers
<1>4. n \in Nat /\ Len(path) = n /\ Input + n < MemSize
  BY <1>2, <1>3
<1> DEFINE blank == [i \in 0 .. MemSize - 1 |-> NUL]
<1>5. blank \in Memories /\ path \in [1 .. n -> Cell] /\ NUL \in Cell
  BY <1>2, PathNumbers DEF Memories, Cell
<1>6. mem = Stored(blank, path, Input)
  BY <1>1
<1> HIDE DEF blank
<1>7. \A i \in 0 .. MemSize - 1 :
        mem[i] = IF i \in Input .. Input + n - 1 THEN path[i - Input + 1]
                 ELSE IF i = Input + n THEN NUL ELSE blank[i]
  BY <1>3, <1>4, <1>5, <1>6, StoredCells
<1>8. ASSUME NEW k \in 1 .. Len(path)
      PROVE  mem[Input + k - 1] = path[k]
  <2>1. Input + k - 1 \in Input .. Input + n - 1 /\ Input + k - 1 \in 0 .. MemSize - 1
    BY <1>3, <1>4
  <2>2. PICK i \in 0 .. MemSize - 1 : i = Input + k - 1
    BY <2>1
  <2>3. mem[i] = path[i - Input + 1] /\ i - Input + 1 = k
    BY <1>3, <1>7, <2>1, <2>2
  <2> QED
    BY <2>2, <2>3
<1> QED
  BY <1>1, <1>8 DEF Follows

\* No loop loses what was asked for, and none passes it on wrong to the next.
LEMMA FollowsStep ==
    ASSUME PathsAssumption, Apart, PathInv, PathInv', Follows, [Next]_vars
    PROVE  Follows'
<1>1. CASE Start
  <2>1. pc = "start" /\ pc' = "copy"
    BY <1>1 DEF Start
  <2>2. Called /\ PathStarts /\ \A k \in 1 .. Len(path) : mem[Input + k - 1] = path[k]
    BY <2>1 DEF PathInv, Follows
  <2>3. CopyFollows'
    BY <1>1, <2>2, StartFollows
  <2> QED
    BY <2>1, <2>3 DEF Follows
<1>2. CASE CopyInput
  <2>1. pc = "copy" /\ pc' \in {"copy", "collapse"}
    BY <1>2 DEF CopyInput
  <2>2. Called /\ PathCopied /\ CopyFollows
    BY <2>1 DEF PathInv, Follows
  <2>3. (pc' = "copy" => CopyFollows') /\ (pc' = "collapse" => CollapseFollows')
    BY <1>2, <2>2, CopyGoesOn
  <2> QED
    BY <2>1, <2>3 DEF Follows
<1>3. CASE Collapse
  <2>1. pc = "collapse" /\ pc' \in {"collapse", "scan"}
    BY <1>3 DEF Collapse
  <2>2. CollapseFollows
    BY <2>1 DEF Follows
  <2>3. /\ pc' = "collapse" => CollapseFollows'
        /\ pc' = "scan" => \E e \in Nat : Text(mem', e) /\ SameParts(e)' /\ SameEnd(e)'
    BY <1>3, <2>2, CollapseGoesOn
  <2>4. pc' = "scan" => (\E e \in Nat : Text(mem, e) /\ SameParts(e) /\ SameEnd(e))'
    BY <2>3 DEF Text
  <2> QED
    BY <2>1, <2>3, <2>4 DEF Follows
<1>4. CASE Scan
  <2>1. pc = "scan" /\ pc' \in {"scan", "done"}
    BY <1>4 DEF Scan
  <2>2. Called /\ \E e \in Nat : Scanned(e)
    BY <2>1 DEF PathInv
  <2>3. PICK e \in Nat : Scanned(e)
    BY <2>2
  <2>4. PICK x \in Nat : Text(mem, x) /\ SameParts(x) /\ SameEnd(x)
    BY <2>1 DEF Follows
  <2>5. e = x
    BY <2>3, <2>4, OneEnd DEF Scanned
  <2>6. SameParts(e) /\ SameEnd(e)
    BY <2>4, <2>5
  <2>7. /\ pc' = "scan" => \E z \in Nat : Text(mem', z) /\ SameParts(z)' /\ SameEnd(z)'
        /\ pc' = "done" => \E z \in Nat : /\ Text(mem', z) /\ SameParts(z)'
                                          /\ Components(Asked') = <<>> \/ SameEnd(z)'
    BY <1>4, <2>2, <2>3, <2>6, ScanGoesOn
  <2> QED
    BY <2>1, <2>7 DEF Follows, Text
<1>5. CASE UNCHANGED vars
  BY <1>5 DEF vars, Follows, CopyFollows, CollapseFollows, SameParts, SameEnd, Asked, PathEnd, Text, TextOf
<1> QED
  BY <1>1, <1>2, <1>3, <1>4, <1>5 DEF Next

\* So it is from beginning to end.
LEMMA FollowsInvariant ==
    ASSUME PathsAssumption, Apart
    PROVE  Spec => [](PathInv /\ Follows)
<1>1. Init => PathInv /\ Follows
  BY PathBegins, FollowsBegins
<1>2. PathInv /\ Follows /\ [Next]_vars => PathInv' /\ Follows'
  BY PathStep, FollowsStep
<1> QED
  BY <1>1, <1>2, PTL DEF Spec

\* The string that is returned.
LEMMA FinishedText ==
    ASSUME PathsAssumption, Apart, Called, NEW e \in Nat, Finished(e)
    PROVE  /\ StringAt(0) = TextOf(mem, e) /\ StringAt(0) \in Seq(Chars)
           /\ Len(StringAt(0)) = e /\ Plain(StringAt(0))
           /\ \A k \in 1 .. e : StringAt(0)[k] = mem[k - 1]
<1>1. /\ mem[0] = "/" /\ mem[e] = NUL /\ e \in Nat \ {0} /\ e <= Room
      /\ \A i \in 0 .. e - 1 : mem[i] # NUL
      /\ \A i \in 0 .. e - 2 : ~(mem[i] = "/" /\ mem[i + 1] = "/")
      /\ \A i \in 0 .. e - 1 : ~UpAt(mem, i)
  BY DEF Finished, Text
<1>2. Room \in Nat /\ Room < MemSize /\ MemSize \in Nat /\ mem \in Memories /\ e < MemSize
  BY <1>1, CalledWith, PathNumbers DEF Called
<1> DEFINE s == StringAt(0)
<1>3. s = TextOf(mem, e)
  <2>1. PICK a \in Nat : a = 0
    OBVIOUS
  <2>2. StringAt(a) = [k \in 1 .. e - a |-> mem[a + k - 1]]
    BY <1>1, <1>2, <2>1, StringIs
  <2>3. e - a = e /\ \A k \in 1 .. e : a + k - 1 = k - 1
    BY <2>1
  <2> QED
    BY <2>1, <2>2, <2>3 DEF TextOf
<1>4. s \in Seq(Chars) /\ Len(s) = e /\ \A k \in 1 .. e : s[k] = mem[k - 1]
  BY <1>1, <1>2, <1>3, TextIs
<1> HIDE DEF s
<1>5. s # <<>> /\ s[1] = "/"
  <2>1. 1 \in 1 .. e /\ 1 - 1 = 0
    BY <1>1
  <2>2. s[1] = mem[1 - 1]
    BY <1>4, <2>1
  <2> QED
    BY <1>1, <1>4, <2>1, <2>2
<1>6. \A k \in 1 .. Len(s) - 1 : ~(s[k] = "/" /\ s[k + 1] = "/")
  <2> SUFFICES ASSUME NEW k \in 1 .. e - 1 PROVE ~(s[k] = "/" /\ s[k + 1] = "/")
    BY <1>4
  <2>1. k \in 1 .. e /\ k + 1 \in 1 .. e /\ k - 1 \in 0 .. e - 2
    BY <1>1
  <2>2. PICK i \in 0 .. e - 2 : i = k - 1
    BY <2>1
  <2>3. s[k] = mem[i] /\ s[k + 1] = mem[i + 1]
    BY <1>4, <2>1, <2>2
  <2> QED
    BY <1>1, <2>3
<1>7. ASSUME NEW k \in 1 .. Len(s) - 2, s[k] = "/", s[k + 1] = ".", s[k + 2] = "."
      PROVE  k + 3 <= Len(s) /\ s[k + 3] # "/"
  <2>1. k \in 1 .. e /\ k + 1 \in 1 .. e /\ k + 2 \in 1 .. e /\ k - 1 \in 0 .. e - 1
    BY <1>1, <1>4
  <2>2. PICK i \in 0 .. e - 1 : i = k - 1
    BY <2>1
  <2>3. mem[i] = "/" /\ mem[i + 1] = "." /\ mem[i + 2] = "."
    BY <1>4, <1>7, <2>1, <2>2
  <2>4. mem[i + 3] \notin {"/", NUL}
    BY <1>1, <2>3 DEF UpAt
  <2>5. i + 3 # e
    BY <1>1, <2>4
  <2>6. k + 3 \in 1 .. e
    BY <1>4, <2>1, <2>2, <2>5
  <2>7. s[k + 3] = mem[i + 3]
    BY <1>4, <2>2, <2>6
  <2> QED
    BY <1>4, <2>4, <2>6, <2>7
<1>8. Plain(s)
  BY <1>5, <1>6, <1>7 DEF Plain
<1> QED
  BY <1>3, <1>4, <1>8 DEF s

-----------------------------------------------------------------------------
(* The theorems *)

\* absolute_path reads and writes only memory there is: no loop runs past the
\* end of the path, of its copy or of what "/.." leaves of it.
THEOREM PathTypeCorrect ==
    ASSUME PathsAssumption, Apart
    PROVE  Spec => []TypeOK
<1>1. PathInv => TypeOK
  BY PathInvSuffices
<1> QED
  BY <1>1, PathInvariant, PTL

\* absolute_path writes as many characters as the directory and the path have,
\* and nothing behind them, if only the directory fits in front of the path it
\* is given. In front of a path in the scratch buffer itself there is no room,
\* and the shell passes such paths.
THEOREM WritesItsResult ==
    ASSUME PathsAssumption, Apart
    PROVE  Spec => []WritesOnlyTheResult
<1>1. PathInv => WritesOnlyTheResult
  BY PathInvSuffices
<1> QED
  BY <1>1, PathInvariant, PTL

\* Whatever the directory and the path are made of, what absolute_path returns
\* begins with "/" and has no empty component and no ".." left: not even the
\* one that comes about when "/.." is taken out from between two others.
THEOREM ResultCanonical ==
    ASSUME PathsAssumption, Apart
    PROVE  Spec => []Canonical
<1>1. ASSUME PathInv
      PROVE  Canonical
  <2> SUFFICES ASSUME pc = "done" PROVE Canonical
    BY DEF Canonical
  <2>1. Called /\ \E e \in Nat : Finished(e)
    BY <1>1 DEF PathInv
  <2>2. Plain(StringAt(0))
    BY <2>1, FinishedText
  <2> QED
    BY <2>2 DEF Canonical, Plain
<1> QED
  BY <1>1, PathInvariant, PTL

\* Whatever detours a path takes, over which of them the scan goes first, and
\* how often it starts again, absolute_path returns the one name under which
\* find_file and openat know the file.
THEOREM ResultAbsolute ==
    ASSUME PathsAssumption, Apart
    PROVE  Spec => []ResolvesToAbsolute
<1>1. ASSUME PathInv, Follows
      PROVE  ResolvesToAbsolute
  <2> SUFFICES ASSUME pc = "done" PROVE StringAt(0) = Absolute(cwd, path)
    BY DEF ResolvesToAbsolute
  <2>1. Called /\ \E e \in Nat : Finished(e)
    BY <1>1 DEF PathInv
  <2>2. PICK e \in Nat : Finished(e)
    BY <2>1
  <2>3. PICK x \in Nat : Text(mem, x) /\ SameParts(x) /\ (Components(Asked) = <<>> \/ SameEnd(x))
    BY <1>1 DEF Follows
  <2>4. e = x
    BY <2>2, <2>3, OneEnd DEF Finished
  <2> DEFINE s == StringAt(0)
  <2>5. /\ s = TextOf(mem, e) /\ s \in Seq(Chars) /\ Len(s) = e /\ Plain(s)
        /\ \A k \in 1 .. e : s[k] = mem[k - 1]
    BY <2>1, <2>2, FinishedText
  <2> HIDE DEF s
  <2>6. Components(s) = Components(Asked) /\ (Components(Asked) = <<>> \/ SameEnd(e))
    BY <2>3, <2>4, <2>5 DEF SameParts
  <2>7. e \in 1 .. e /\ Last(s) = mem[e - 1]
    BY <2>2, <2>5 DEF Finished, Text, Last
  <2>8. CASE Components(Asked) = <<>>
    <3>1. s = <<"/">>
      BY <2>5, <2>6, <2>8, PlainIsAbsolute
    <3> QED
      BY <2>8, <3>1 DEF Absolute, Asked, s
  <2>9. CASE Components(Asked) # <<>>
    <3>1. s = Named(Components(Asked)) \o (IF Last(s) = "/" THEN <<"/">> ELSE <<>>)
      BY <2>5, <2>6, <2>9, PlainIsAbsolute
    <3>2. Last(s) = "/" <=> Last(Asked) = "/"
      BY <2>6, <2>7, <2>9 DEF SameEnd
    <3>3. s = Named(Components(Asked)) \o (IF Last(Asked) = "/" THEN <<"/">> ELSE <<>>)
      BY <3>1, <3>2
    <3> QED
      BY <2>9, <3>3 DEF Absolute, Asked, s
  <2> QED
    BY <2>8, <2>9
<1> QED
  BY <1>1, FollowsInvariant, PTL

=============================================================================
