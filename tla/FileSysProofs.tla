---------------------------- MODULE FileSysProofs ----------------------------
(***************************************************************************)
(* Theorems about FileSys, for every number of entries, descriptors and    *)
(* program levels and every size of the data area: the tables and the open *)
(* files keep their types, and as long as programs are tidy the files lie  *)
(* one behind the other.                                                   *)
(*                                                                         *)
(* That a growing file is the last one needs more than the layout: an open *)
(* descriptor of any program, running or waiting, must be an entry that    *)
(* exists, or a write could grow an entry behind the last file.            *)
(*                                                                         *)
(* The second half shows that the tables and the data area implement the   *)
(* log of FileStore: what every call makes of the log and of the handles   *)
(* behind them, then one lemma per action.                                 *)
(***************************************************************************)
EXTENDS FileSys, SequenceTheorems, WellFoundedInduction, TLAPS

Handles == [file : Entries, off : 0 .. Offsets - 1]

\* Every file ends inside the data area.
FilesInside == \A i \in Entries : End(i) <= DataCap

\* Every open file is an entry that exists.
OpenFilesExist ==
    \A l \in 1 .. MaxLevels, fd \in Fds : files[l][fd].file \in Created \cup {0}

IInv ==
    /\ TypeOK
    /\ FilesInside
    /\ OpenFilesExist
    /\ Tidy => FilesDisjoint

-----------------------------------------------------------------------------
(* The operators of the model *)

\* A non-empty set of natural numbers has a least element.
LEMMA LeastElement ==
    ASSUME NEW S, S \subseteq Nat, S # {}
    PROVE  \E x \in S : \A y \in S : x <= y
<1> DEFINE R == OpToRel(<, Nat)
<1>1. IsWellFoundedOn(R, Nat)
  BY NatLessThanWellFounded
<1>2. \A x, y \in Nat : x < y => <<x, y>> \in R
  BY DEF OpToRel
<1> HIDE DEF R
<1>3. PICK x \in S : \A y \in S : ~ (<<y, x>> \in R)
  BY <1>1, WFMin
<1>4. \A y \in S : ~ (y < x)
  BY <1>2, <1>3
<1> QED
  BY <1>4

\* A non-empty, bounded set of natural numbers has a greatest element.
LEMMA GreatestElement ==
    ASSUME NEW S, S \subseteq Nat, S # {}, NEW b \in Nat, \A x \in S : x <= b
    PROVE  \E x \in S : \A y \in S : x >= y
<1> DEFINE T == {n \in Nat : \E x \in S : n = b - x}
<1>1. T \subseteq Nat
  OBVIOUS
<1>2. \A x \in S : b - x \in T
  OBVIOUS
<1>3. PICK t \in T : \A u \in T : t <= u
  <2> HIDE DEF T
  <2> QED
    BY <1>1, <1>2, LeastElement
<1>4. PICK x \in S : t = b - x
  OBVIOUS
<1>5. \A y \in S : b - x <= b - y
  BY <1>2, <1>3, <1>4
<1> QED
  BY <1>5

\* Min and Max find them.
LEMMA MinIn ==
    ASSUME NEW S, S \subseteq Nat, S # {}
    PROVE  Min(S) \in S
BY LeastElement DEF Min

LEMMA MaxIn ==
    ASSUME NEW S, S \subseteq Nat, S # {}, NEW b \in Nat, \A x \in S : x <= b
    PROVE  Max(S) \in S
BY GreatestElement DEF Max

LEMMA MaxOfTwo ==
    ASSUME NEW x \in Int, NEW y \in Int
    PROVE  Max({x, y}) = IF x >= y THEN x ELSE y
BY DEF Max

LEMMA MinOfTwo ==
    ASSUME NEW x \in Int, NEW y \in Int
    PROVE  Min({x, y}) = IF x <= y THEN x ELSE y
BY DEF Min

LEMMA ConstantFacts ==
    /\ MaxFiles \in Nat /\ MaxFiles >= 3 /\ FirstFile = 3
    /\ DataCap \in Nat /\ MaxLevels \in Nat
    /\ Offsets \in Nat /\ Offsets > 0
    /\ Counts \subseteq Nat /\ Seeks \subseteq Int /\ Fds \subseteq Nat
    /\ Tidy \in BOOLEAN
    /\ \A fd \in Fds : fd \in Int
BY FileSysAssumption DEF FileSysAssumption, FirstFile

LEMMA Wrapped ==
    ASSUME NEW x \in Int
    PROVE  x % Offsets \in 0 .. Offsets - 1
BY ConstantFacts

\* find_file returns -1 or an entry that exists.
LEMMA FoundExists ==
    ASSUME TypeOK, NEW p
    PROVE  FindFile(p) \in Created \cup {-1}
<1> USE ConstantFacts
<1>1. nextFile \in Nat
  BY DEF TypeOK
<1>2. Named(p) \subseteq Nat /\ \A i \in Named(p) : i <= nextFile
  BY <1>1 DEF Named, Created
<1>3. CASE Named(p) # {}
  <2>1. Max(Named(p)) \in Named(p)
    BY <1>1, <1>2, <1>3, MaxIn
  <2> QED
    BY <1>3, <2>1 DEF FindFile, Named
<1> QED
  BY <1>3 DEF FindFile

\* A new handle in a descriptor of the running program keeps files in order.
LEMMA WithOK ==
    ASSUME TypeOK, level > 0, NEW n \in Nat, n >= FirstFile, n <= MaxFiles,
           \A l \in 1 .. MaxLevels, fd \in Fds :
               files[l][fd].file \in (FirstFile .. n - 1) \cup {0},
           NEW fd \in Fds, NEW h \in Handles,
           h.file \in (FirstFile .. n - 1) \cup {0},
           files' = With(fd, h)
    PROVE  /\ files' \in [1 .. MaxLevels -> [Fds -> Handles]]
           /\ \A l \in 1 .. MaxLevels, c \in Fds :
                  files'[l][c].file \in (FirstFile .. n - 1) \cup {0}
<1> USE ConstantFacts
<1> DEFINE one == [files[level] EXCEPT ![fd] = h]
<1>1. level \in 1 .. MaxLevels
  BY DEF TypeOK
<1>2. files \in [1 .. MaxLevels -> [Fds -> Handles]]
  BY DEF TypeOK, Handles
<1>3. files' = [files EXCEPT ![level] = one]
  BY DEF With
<1>4. one \in [Fds -> Handles]
  BY <1>1, <1>2
<1>5. \A c \in Fds : one[c].file \in (FirstFile .. n - 1) \cup {0}
  BY <1>1, <1>2
<1> HIDE DEF one
<1> QED
  BY <1>1, <1>2, <1>3, <1>4, <1>5

\* Handles of the running program.
LEMMA HandleType ==
    ASSUME TypeOK, OpenFilesExist, level > 0, NEW fd \in Fds
    PROVE  /\ Handle(fd) \in Handles
           /\ File(fd) \in Created \cup {0} /\ File(fd) \in Entries
           /\ Handle(fd).off \in Nat /\ len[File(fd)] \in Nat /\ addr[File(fd)] \in Nat
<1> USE ConstantFacts
<1>1. level \in 1 .. MaxLevels
  BY DEF TypeOK
<1>2. Handle(fd) \in Handles
  BY <1>1 DEF TypeOK, Handle, Handles
<1>3. File(fd) \in Created \cup {0}
  BY <1>1 DEF OpenFilesExist, File, Handle
<1>4. File(fd) \in Entries
  BY <1>2 DEF File, Handles
<1>5. len[File(fd)] \in 0 .. DataCap /\ addr[File(fd)] \in 0 .. DataCap
  BY <1>4 DEF TypeOK
<1> QED
  BY <1>2, <1>3, <1>4, <1>5 DEF Handles

\* What openat_alloc_fd leaves behind.
LEMMA AllocFdOK ==
    ASSUME TypeOK, level > 0, NEW n \in Nat, n >= FirstFile, n <= MaxFiles,
           \A l \in 1 .. MaxLevels, fd \in Fds :
               files[l][fd].file \in (FirstFile .. n - 1) \cup {0},
           NEW i \in FirstFile .. n - 1, AllocFd(i)
    PROVE  /\ files' \in [1 .. MaxLevels -> [Fds -> Handles]]
           /\ \A l \in 1 .. MaxLevels, c \in Fds :
                  files'[l][c].file \in (FirstFile .. n - 1) \cup {0}
           /\ out'.ret \in Int
<1> USE ConstantFacts
<1>1. CASE Free # {} /\ files' = Opened(Min(Free), i) /\ Returns(Min(Free))
  <2>1. Min(Free) \in Fds
    BY <1>1, MinIn DEF Free
  <2>2. [file |-> i, off |-> 0] \in Handles
    BY DEF Handles, Entries
  <2>3. files' = With(Min(Free), [file |-> i, off |-> 0])
    BY <1>1 DEF Opened
  <2>4. out'.ret \in Int
    <3>1. Min(Free) \in Int
      BY <2>1
    <3>2. out'.ret = Min(Free)
      BY <1>1 DEF Returns
    <3> QED
      BY <3>1, <3>2
  <2> QED
    BY <2>1, <2>2, <2>3, <2>4, WithOK
<1>2. CASE Free = {} /\ Returns(-1) /\ UNCHANGED files
  BY <1>2, SMTT(60) DEF Returns, TypeOK, Handles
<1> QED
  BY <1>1, <1>2 DEF AllocFd

\* The tables' part of the invariant.
TablesOK ==
    /\ name \in [Entries -> Paths \cup {NoName}]
    /\ addr \in [Entries -> 0 .. DataCap]
    /\ len \in [Entries -> 0 .. DataCap]
    /\ nextFile \in FirstFile .. MaxFiles
    /\ nextAddr \in 0 .. DataCap
    /\ FilesInside
    /\ Tidy => FilesDisjoint

\* A new entry of n bytes at the end of the data.
LEMMA NewEntryOK ==
    ASSUME TablesOK, NEW p \in Paths, NEW n \in Nat, nextAddr + n <= DataCap,
           NewEntry(p), len' = [len EXCEPT ![nextFile] = n], nextAddr' = nextAddr + n
    PROVE  TablesOK'
<1> USE ConstantFacts
<1>1. /\ nextFile \in Entries /\ nextFile \in Nat /\ nextFile' = nextFile + 1
      /\ nextFile < MaxFiles
  BY DEF TablesOK, NewEntry, Entries
<1>2. /\ name' \in [Entries -> Paths \cup {NoName}]
      /\ addr' \in [Entries -> 0 .. DataCap]
      /\ len' \in [Entries -> 0 .. DataCap]
  BY <1>1 DEF TablesOK, NewEntry
<1>3. nextFile' \in FirstFile .. MaxFiles /\ nextAddr' \in 0 .. DataCap
  BY <1>1 DEF TablesOK
<1>4. \A i \in Entries : End(i)' = IF i = nextFile THEN nextAddr + n ELSE End(i)
  BY <1>1 DEF TablesOK, NewEntry, End
<1>5. FilesInside'
  BY <1>4 DEF TablesOK, FilesInside, Entries
<1>6. ASSUME Tidy PROVE FilesDisjoint'
  <2>1. FilesDisjoint
    BY <1>6 DEF TablesOK
  <2>2. ASSUME NEW i \in Created'
        PROVE  End(i)' = IF i = nextFile' - 1 THEN nextAddr' ELSE addr'[i + 1]
    <3>1. i \in Entries /\ i \in Nat /\ i >= FirstFile /\ i <= nextFile
      BY <1>1, <2>2 DEF Created, Entries
    <3>2. CASE i = nextFile
      BY <1>1, <1>4, <3>1, <3>2
    <3>3. CASE i < nextFile
      <4>1. i \in Created
        BY <1>1, <3>1, <3>3 DEF Created
      <4>2. End(i) = IF i = nextFile - 1 THEN nextAddr ELSE addr[i + 1]
        BY <2>1, <4>1 DEF FilesDisjoint
      <4>3. addr'[i + 1] = IF i = nextFile - 1 THEN nextAddr ELSE addr[i + 1]
        BY <1>1, <3>1, <3>3 DEF NewEntry, TablesOK, Entries
      <4> QED
        BY <1>1, <1>4, <3>1, <3>3, <4>2, <4>3
    <3> QED
      BY <1>1, <3>1, <3>2, <3>3
  <2>3. nextFile' # FirstFile
    BY <1>1 DEF TablesOK
  <2> QED
    BY <2>2, <2>3 DEF FilesDisjoint
<1> QED
  BY <1>2, <1>3, <1>5, <1>6 DEF TablesOK

\* The shell's new files.
LEMMA StoreOK ==
    ASSUME TypeOK, TablesOK, NEW p \in Paths, NEW bytes \in Seq(Cells), Store(p, bytes)
    PROVE  TablesOK' /\ data' \in [0 .. DataCap - 1 -> Cells]
<1> USE ConstantFacts
<1>1. Len(bytes) \in Nat
  OBVIOUS
<1>2. TablesOK'
  <2>1. /\ nextAddr + Len(bytes) <= DataCap /\ NewEntry(p)
        /\ len' = [len EXCEPT ![nextFile] = Len(bytes)]
        /\ nextAddr' = nextAddr + Len(bytes)
    BY DEF Store
  <2> QED
    BY <1>1, <2>1, NewEntryOK
<1>3. data' \in [0 .. DataCap - 1 -> Cells]
  <2>1. nextAddr \in Int
    BY DEF TypeOK
  <2>2. \A a \in nextAddr .. nextAddr + Len(bytes) - 1 : bytes[a - nextAddr + 1] \in Cells
    BY <1>1, <2>1
  <2> QED
    BY <2>2 DEF Store, TypeOK
<1> QED
  BY <1>2, <1>3

-----------------------------------------------------------------------------
(* The invariant *)

\* The open files' part of the invariant.
FilesOK ==
    /\ files \in [1 .. MaxLevels -> [Fds -> Handles]]
    /\ OpenFilesExist

Parts ==
    /\ TablesOK /\ FilesOK
    /\ data \in [0 .. DataCap - 1 -> Cells]
    /\ level \in 0 .. MaxLevels
    /\ out.ret \in Int

LEMMA InParts == IInv <=> Parts
BY DEF IInv, TypeOK, TablesOK, FilesOK, Handles, Parts

LEMMA InPartsNext == IInv' <=> Parts'
BY DEF IInv, TypeOK, TablesOK, FilesOK, Handles, Parts

\* Tables that are left alone keep their part of the invariant.
LEMMA TablesKept ==
    ASSUME IInv, UNCHANGEDTables
    PROVE  /\ TablesOK' /\ data' \in [0 .. DataCap - 1 -> Cells]
           /\ nextFile' = nextFile /\ Created' = Created
<1>1. TablesOK /\ data \in [0 .. DataCap - 1 -> Cells]
  BY InParts DEF Parts
<1>2. \A i : End(i)' = End(i)
  BY DEF UNCHANGEDTables, End
<1>3. Created' = Created
  BY DEF UNCHANGEDTables, Created
<1>4. FilesInside' /\ (Tidy => FilesDisjoint')
  BY <1>1, <1>2, <1>3 DEF TablesOK, FilesInside, FilesDisjoint, UNCHANGEDTables
<1> QED
  BY <1>1, <1>3, <1>4 DEF TablesOK, UNCHANGEDTables

\* A system call that only returns something.
LEMMA AnswersOK ==
    ASSUME IInv, UNCHANGEDTables, UNCHANGED <<level, files>>, out'.ret \in Int
    PROVE  IInv'
<1>1. FilesOK /\ level \in 0 .. MaxLevels
  BY InParts DEF Parts
<1>2. FilesOK'
  BY <1>1, TablesKept DEF FilesOK, OpenFilesExist
<1> QED
  BY <1>1, <1>2, TablesKept, InPartsNext DEF Parts

\* A system call that gives one descriptor another handle for a file that
\* exists, or closes it.
LEMMA HandleOK ==
    ASSUME IInv, level > 0, UNCHANGEDTables, UNCHANGED level, out'.ret \in Int,
           NEW fd \in Fds, NEW h \in Handles, h.file \in Created \cup {0},
           files' = With(fd, h)
    PROVE  IInv'
<1> USE ConstantFacts
<1>1. nextFile \in Nat /\ nextFile >= FirstFile /\ nextFile <= MaxFiles /\ TypeOK
  BY DEF IInv, TypeOK
<1>2. \A l \in 1 .. MaxLevels, c \in Fds :
          files[l][c].file \in (FirstFile .. nextFile - 1) \cup {0}
  BY DEF IInv, OpenFilesExist, Created
<1>3. FilesOK'
  <2>1. h.file \in (FirstFile .. nextFile - 1) \cup {0}
    BY DEF Created
  <2> QED
    BY <1>1, <1>2, <2>1, WithOK, TablesKept DEF FilesOK, OpenFilesExist, Created
<1>4. level' \in 0 .. MaxLevels
  BY DEF IInv, TypeOK
<1> QED
  BY <1>3, <1>4, TablesKept, InPartsNext DEF Parts

\* An offset moves.
LEMMA MovedHandle ==
    ASSUME IInv, level > 0, NEW fd \in Fds, NEW off \in Int
    PROVE  /\ [file |-> File(fd), off |-> off % Offsets] \in Handles
           /\ File(fd) \in Created \cup {0}
<1>1. TypeOK /\ OpenFilesExist
  BY DEF IInv
<1> QED
  BY <1>1, HandleType, Wrapped DEF Handles

LEMMA OpenatOK == ASSUME IInv, NEW p \in Paths, Openat(p) PROVE IInv'
<1> USE ConstantFacts
<1>1. /\ nextFile \in Nat /\ nextFile >= FirstFile /\ nextFile <= MaxFiles
      /\ TypeOK /\ level \in 0 .. MaxLevels /\ level > 0 /\ level' = level
      /\ UNCHANGEDTables
  BY DEF IInv, TypeOK, Openat
<1>2. \A l \in 1 .. MaxLevels, c \in Fds :
          files[l][c].file \in (FirstFile .. nextFile - 1) \cup {0}
  BY DEF IInv, OpenFilesExist, Created
<1>3. CASE FindFile(p) >= 0 /\ AllocFd(FindFile(p))
  <2>1. FindFile(p) \in FirstFile .. nextFile - 1
    BY <1>1, <1>3, FoundExists DEF Created
  <2>2. FilesOK' /\ out'.ret \in Int
    BY <1>1, <1>2, <1>3, <2>1, AllocFdOK, TablesKept DEF FilesOK, OpenFilesExist, Created
  <2> QED
    BY <1>1, <2>2, TablesKept, InPartsNext DEF Parts
<1>4. CASE FindFile(p) < 0 /\ Returns(-1) /\ UNCHANGED files
  BY <1>1, <1>4, AnswersOK DEF Returns
<1> QED
  BY <1>3, <1>4 DEF Openat

\* Open files survive a growing table.
LEMMA StillExist ==
    ASSUME FilesOK, nextFile \in Nat, nextFile' = nextFile + 1, UNCHANGED files
    PROVE  FilesOK'
<1> USE ConstantFacts
<1>1. Created \subseteq Created'
  BY DEF Created
<1> QED
  BY <1>1 DEF FilesOK, OpenFilesExist

LEMMA OpenatCreatOK == ASSUME IInv, NEW p \in Paths, OpenatCreat(p) PROVE IInv'
<1> USE ConstantFacts
<1>1. /\ TablesOK /\ FilesOK /\ TypeOK /\ nextFile \in Nat /\ nextFile >= FirstFile
      /\ level \in 0 .. MaxLevels /\ level > 0 /\ level' = level
      /\ nextAddr \in Nat /\ nextAddr <= DataCap
      /\ data \in [0 .. DataCap - 1 -> Cells]
  <2>1. TypeOK
    BY DEF IInv
  <2>2. TablesOK /\ FilesOK /\ data \in [0 .. DataCap - 1 -> Cells]
        /\ level \in 0 .. MaxLevels
    BY InParts DEF Parts
  <2> QED
    BY <2>1, <2>2 DEF TablesOK, OpenatCreat
<1>2. CASE /\ NewEntry(p) /\ len' = [len EXCEPT ![nextFile] = 0]
           /\ AllocFd(nextFile) /\ UNCHANGED <<nextAddr, data>>
  <2>1. TablesOK'
    <3>1. nextAddr + 0 <= DataCap /\ nextAddr' = nextAddr + 0
      BY <1>1, <1>2
    <3> QED
      BY <1>1, <1>2, <3>1, NewEntryOK
  <2>2. nextFile' = nextFile + 1 /\ nextFile + 1 <= MaxFiles
    BY <1>1, <1>2 DEF NewEntry
  <2>3. \A l \in 1 .. MaxLevels, c \in Fds :
            files[l][c].file \in (FirstFile .. (nextFile + 1) - 1) \cup {0}
    BY <1>1 DEF FilesOK, OpenFilesExist, Created
  <2>4. FilesOK' /\ out'.ret \in Int
    <3>1. /\ nextFile \in FirstFile .. (nextFile + 1) - 1
          /\ nextFile + 1 \in Nat /\ nextFile + 1 >= FirstFile /\ nextFile + 1 <= MaxFiles
      BY <1>1, <2>2
    <3>2. /\ files' \in [1 .. MaxLevels -> [Fds -> Handles]]
          /\ \A l \in 1 .. MaxLevels, c \in Fds :
                 files'[l][c].file \in (FirstFile .. (nextFile + 1) - 1) \cup {0}
          /\ out'.ret \in Int
      BY <1>1, <1>2, <2>3, <3>1, AllocFdOK
    <3> QED
      BY <2>2, <3>2 DEF FilesOK, OpenFilesExist, Created
  <2> QED
    BY <1>1, <1>2, <2>1, <2>4, InPartsNext DEF Parts
<1>3. CASE Returns(-1) /\ UNCHANGEDTables /\ UNCHANGED files
  BY <1>1, <1>3, AnswersOK DEF Returns
<1> QED
  BY <1>2, <1>3 DEF OpenatCreat

LEMMA MkdiratOK == ASSUME IInv, NEW p \in Paths, Mkdirat(p) PROVE IInv'
<1> USE ConstantFacts
<1>1. /\ TablesOK /\ FilesOK /\ nextFile \in Nat
      /\ level \in 0 .. MaxLevels /\ UNCHANGED <<level, files>>
      /\ nextAddr \in Nat /\ nextAddr <= DataCap
      /\ data \in [0 .. DataCap - 1 -> Cells]
  BY InParts DEF Parts, TablesOK, Mkdirat
<1>2. CASE /\ NewEntry(p) /\ len' = [len EXCEPT ![nextFile] = 0] /\ Returns(0)
           /\ UNCHANGED <<nextAddr, data>>
  <2>1. TablesOK'
    <3>1. nextAddr + 0 <= DataCap /\ nextAddr' = nextAddr + 0
      BY <1>1, <1>2
    <3> QED
      BY <1>1, <1>2, <3>1, NewEntryOK
  <2>2. FilesOK'
    BY <1>1, <1>2, StillExist DEF NewEntry
  <2> QED
    BY <1>1, <1>2, <2>1, <2>2, InPartsNext DEF Parts, Returns
<1>3. CASE Returns(-1) /\ UNCHANGEDTables
  BY <1>1, <1>3, AnswersOK DEF Returns
<1> QED
  BY <1>2, <1>3 DEF Mkdirat

LEMMA FaccessatOK == ASSUME IInv, NEW p \in Paths, Faccessat(p) PROVE IInv'
BY AnswersOK DEF Faccessat, Returns

LEMMA ChdirOK == ASSUME IInv, NEW p \in Paths, Chdir(p) PROVE IInv'
BY AnswersOK DEF Chdir, Returns

LEMMA CloseOK == ASSUME IInv, NEW fd \in Fds, Close(fd) PROVE IInv'
<1> USE ConstantFacts
<1>1. Handle(fd) \in Handles
  BY HandleType DEF IInv, Close
<1>2. [file |-> 0, off |-> Handle(fd).off] \in Handles
  BY <1>1 DEF Handles, Entries
<1> QED
  BY <1>2, HandleOK DEF Close, Returns

LEMMA LseekOK == ASSUME IInv, NEW fd \in Fds, NEW off \in Seeks, Lseek(fd, off) PROVE IInv'
<1>1. PICK base \in {0, Handle(fd).off, len[File(fd)]} :
          files' = Moved(fd, base + off) /\ Returns(base + off)
  BY DEF Lseek
<1>2. base + off \in Int
  BY ConstantFacts, HandleType DEF IInv, Lseek
<1>3. [file |-> File(fd), off |-> (base + off) % Offsets] \in Handles
      /\ File(fd) \in Created \cup {0}
  BY <1>2, MovedHandle DEF Lseek
<1> QED
  BY <1>1, <1>2, <1>3, HandleOK DEF Lseek, Moved, Returns

LEMMA ReadOK == ASSUME IInv, NEW fd \in Fds, NEW n \in Counts, Read(fd, n) PROVE IInv'
<1> DEFINE m == Available(fd, n)
<1>1. len[File(fd)] \in Int /\ Handle(fd).off \in Int /\ n \in Int /\ level > 0
  BY ConstantFacts, HandleType DEF IInv, Read
<1>2. m \in Int
  BY <1>1, MaxOfTwo, MinOfTwo DEF Available
<1> HIDE DEF m
<1>3. Handle(fd).off + m \in Int
  BY <1>1, <1>2
<1>4. [file |-> File(fd), off |-> (Handle(fd).off + m) % Offsets] \in Handles
      /\ File(fd) \in Created \cup {0}
  BY <1>1, <1>3, MovedHandle
<1>5. out'.ret = m /\ files' = Moved(fd, Handle(fd).off + m)
      /\ UNCHANGEDTables /\ UNCHANGED level
  BY DEF Read, m
<1> QED
  BY <1>1, <1>2, <1>4, <1>5, HandleOK DEF Moved

\* A write makes a file longer by what it writes past its end; with Tidy that
\* is the last file, and next_file_address moves with its end.
LEMMA WriteOK ==
    ASSUME IInv, NEW fd \in Fds, NEW v \in Bytes, NEW n \in Counts, Write(fd, v, n)
    PROVE  IInv'
<1> USE ConstantFacts
<1> DEFINE i   == File(fd)
           off == Handle(fd).off
<1>1. /\ TypeOK /\ FilesOK /\ TablesOK /\ OpenFilesExist
      /\ level > 0 /\ level' = level /\ level \in 0 .. MaxLevels
  BY InParts DEF IInv, Parts, Write
<1>2. /\ i \in Created /\ i \in Entries /\ i \in Nat
      /\ off \in Nat /\ len[i] \in Nat /\ addr[i] \in Nat /\ n \in Nat
      /\ nextAddr \in Nat /\ nextFile \in Nat
  <2>1. nextAddr \in Nat /\ nextFile \in Nat
    BY <1>1 DEF TypeOK
  <2>2. i # 0
    BY DEF Write
  <2> QED
    BY <1>1, <2>1, <2>2, HandleType DEF Entries
<1> HIDE DEF i, off
<1>3. /\ addr[i] + off + n <= DataCap /\ nextAddr + n <= DataCap
      /\ Tidy => off <= len[i] /\ (off + n > len[i] => i = nextFile - 1)
      /\ data' = [a \in 0 .. DataCap - 1 |->
                    IF a \in addr[i] + off .. addr[i] + off + n - 1 THEN v ELSE data[a]]
      /\ len' = [len EXCEPT ![i] = Max({len[i], off + n})]
      /\ nextAddr' = nextAddr + Grown(i, off, n)
      /\ files' = Moved(fd, off + n)
      /\ Returns(n)
      /\ UNCHANGED <<name, addr, nextFile, level>>
  BY DEF Write, i, off
<1>4. len' = [len EXCEPT ![i] = IF len[i] >= off + n THEN len[i] ELSE off + n]
  <2>1. len[i] \in Int /\ off + n \in Int
    BY <1>2
  <2>2. Max({len[i], off + n}) = IF len[i] >= off + n THEN len[i] ELSE off + n
    BY <2>1, MaxOfTwo
  <2> QED
    BY <1>3, <2>2
<1>5. Grown(i, off, n) = IF off >= len[i] THEN n
                         ELSE IF off + n - len[i] >= 0 THEN off + n - len[i] ELSE 0
  BY <1>2, MaxOfTwo DEF Grown
<1>6. \A j \in Entries :
          End(j)' = IF j = i /\ off + n > len[i] THEN addr[i] + off + n ELSE End(j)
  BY <1>1, <1>2, <1>3, <1>4, SMTT(60) DEF End, TypeOK
<1>7. TablesOK'
  <2>1. len' \in [Entries -> 0 .. DataCap]
    BY <1>1, <1>2, <1>3, <1>4, SMTT(60) DEF TypeOK
  <2>2. nextAddr' \in 0 .. DataCap
    BY <1>2, <1>3, <1>5, SMTT(60)
  <2>3. FilesInside'
    BY <1>1, <1>3, <1>6 DEF TablesOK, FilesInside
  <2>4. ASSUME Tidy PROVE FilesDisjoint'
    <3>1. FilesDisjoint /\ Created' = Created /\ Created \subseteq Entries
      BY <1>1, <1>3, <2>4 DEF TablesOK, Created, Entries
    <3>2. CASE off + n > len[i]
      <4>1. i = nextFile - 1 /\ off <= len[i]
        BY <1>3, <2>4, <3>2
      <4>2. End(i) = nextAddr
        BY <1>2, <3>1, <4>1 DEF FilesDisjoint
      <4>3. nextAddr' = addr[i] + off + n
        <5>1. nextAddr = addr[i] + len[i]
          BY <4>2 DEF End
        <5>2. Grown(i, off, n) = off + n - len[i]
          BY <1>2, <1>5, <3>2, <4>1
        <5> QED
          BY <1>2, <1>3, <5>1, <5>2, SMTT(60)
      <4>4. \A j \in Created : End(j)' = IF j = nextFile - 1 THEN nextAddr' ELSE addr[j + 1]
        BY <1>6, <3>1, <3>2, <4>1, <4>3 DEF FilesDisjoint
      <4>5. nextFile # FirstFile
        BY <1>2 DEF Created
      <4> QED
        BY <1>3, <3>1, <4>4, <4>5 DEF FilesDisjoint
    <3>3. CASE ~ (off + n > len[i])
      <4>1. nextAddr' = nextAddr
        BY <1>2, <1>3, <1>5, <2>4, <3>3
      <4>2. \A j \in Created : End(j)' = End(j)
        BY <1>6, <3>1, <3>3
      <4> QED
        BY <1>3, <3>1, <4>1, <4>2 DEF FilesDisjoint
    <3> QED
      BY <3>2, <3>3
  <2> QED
    BY <1>1, <1>3, <2>1, <2>2, <2>3, <2>4 DEF TablesOK
<1>8. data' \in [0 .. DataCap - 1 -> Cells]
  BY <1>1, <1>3 DEF TypeOK, Cells
<1>9. FilesOK'
  <2>1. off + n \in Int
    BY <1>2
  <2>2. [file |-> File(fd), off |-> (off + n) % Offsets] \in Handles
        /\ File(fd) \in Created \cup {0}
    BY <1>1, <2>1, MovedHandle
  <2>3. /\ nextFile >= FirstFile /\ nextFile <= MaxFiles
        /\ \A l \in 1 .. MaxLevels, c \in Fds :
               files[l][c].file \in (FirstFile .. nextFile - 1) \cup {0}
    BY <1>1 DEF TypeOK, OpenFilesExist, Created
  <2>4. files' = With(fd, [file |-> File(fd), off |-> (off + n) % Offsets])
    BY <1>3 DEF Moved
  <2>5. File(fd) \in (FirstFile .. nextFile - 1) \cup {0}
    BY <2>2 DEF Created
  <2> DEFINE h == [file |-> File(fd), off |-> (off + n) % Offsets]
  <2>6. h.file \in (FirstFile .. nextFile - 1) \cup {0} /\ h \in Handles /\ files' = With(fd, h)
    BY <2>2, <2>4, <2>5
  <2>7. nextFile \in Nat
    BY <1>2
  <2> HIDE DEF h
  <2>8. /\ files' \in [1 .. MaxLevels -> [Fds -> Handles]]
        /\ \A l \in 1 .. MaxLevels, c \in Fds :
               files'[l][c].file \in (FirstFile .. nextFile - 1) \cup {0}
    BY <1>1, <2>3, <2>6, <2>7, WithOK
  <2>9. nextFile' = nextFile
    BY <1>3
  <2> QED
    BY <2>8, <2>9 DEF FilesOK, OpenFilesExist, Created
<1>10. out'.ret \in Int
  BY <1>2, <1>3 DEF Returns
<1> QED
  BY <1>1, <1>7, <1>8, <1>9, <1>10, InPartsNext DEF Parts

LEMMA SrcOK ==
    ASSUME IInv, NEW p \in Paths, NEW v \in Bytes, NEW n \in Counts, Src(p, v, n)
    PROVE  IInv'
<1> DEFINE bytes == [k \in 1 .. n |-> v]
<1>1. TablesOK /\ FilesOK /\ TypeOK /\ level \in 0 .. MaxLevels /\ out.ret \in Int
  BY InParts DEF IInv, Parts
<1>2. bytes \in Seq(Cells)
  BY ConstantFacts DEF Cells
<1>3. Store(p, bytes) /\ UNCHANGED <<level, files, out>>
  BY DEF Src
<1>4. nextFile \in Nat /\ nextFile' = nextFile + 1
  BY <1>1, <1>3, ConstantFacts DEF TypeOK, Store, NewEntry
<1> HIDE DEF bytes
<1>5. TablesOK' /\ data' \in [0 .. DataCap - 1 -> Cells]
  BY <1>1, <1>2, <1>3, StoreOK
<1>6. FilesOK'
  BY <1>1, <1>3, <1>4, StillExist
<1> QED
  BY <1>1, <1>3, <1>5, <1>6, InPartsNext DEF Parts

\* The contents of a file are cells of the data area.
LEMMA ContentsType ==
    ASSUME IInv, NEW i \in Entries
    PROVE  len[i] \in 0 .. DataCap /\ Contents(i) \in [1 .. len[i] -> Cells]
<1> USE ConstantFacts
<1>1. len[i] \in 0 .. DataCap /\ addr[i] \in Nat /\ addr[i] + len[i] <= DataCap
  BY DEF IInv, TypeOK, FilesInside, End
<1>2. \A k \in 1 .. len[i] : addr[i] + k - 1 \in 0 .. DataCap - 1
  BY <1>1
<1>3. data \in [0 .. DataCap - 1 -> Cells]
  BY DEF IInv, TypeOK
<1> QED
  BY <1>1, <1>2, <1>3 DEF Contents

LEMMA Hex0OK ==
    ASSUME IInv, NEW p \in Paths, NEW q \in Paths, Hex0(p, q)
    PROVE  IInv'
<1> DEFINE i     == FindFile(p)
           bytes == Assembled(Contents(i))
<1>1. TablesOK /\ FilesOK /\ TypeOK /\ level \in 0 .. MaxLevels /\ out.ret \in Int
  BY InParts DEF IInv, Parts
<1>2. i \in Entries
  <2>1. i \in Created \cup {-1} /\ i >= 0
    BY <1>1, FoundExists DEF Hex0
  <2>2. nextFile \in FirstFile .. MaxFiles
    BY <1>1 DEF TypeOK
  <2> QED
    BY <2>1, <2>2, ConstantFacts DEF Created, Entries
<1>3. Store(q, bytes) /\ UNCHANGED <<level, files, out>>
  BY DEF Hex0
<1>4. nextFile \in Nat /\ nextFile' = nextFile + 1
  BY <1>1, <1>3, ConstantFacts DEF TypeOK, Store, NewEntry
<1> HIDE DEF i
<1>5. bytes \in Seq(Cells)
  <2>1. \A n \in 0 .. DataCap : \A s \in [1 .. n -> Cells] : Assembled(s) \in Seq(Cells)
    BY FileSysAssumption DEF FileSysAssumption, Cells
  <2> QED
    BY <1>2, <2>1, ContentsType
<1> HIDE DEF bytes
<1>6. TablesOK' /\ data' \in [0 .. DataCap - 1 -> Cells]
  BY <1>1, <1>3, <1>5, StoreOK
<1>7. FilesOK'
  BY <1>1, <1>3, <1>4, StillExist
<1> QED
  BY <1>1, <1>3, <1>6, <1>7, InPartsNext DEF Parts

\* A program starts with all its descriptors closed.
LEMMA EmptiedOK ==
    ASSUME IInv, UNCHANGEDTables, NEW l \in 1 .. MaxLevels, files' = Emptied(l),
           level' \in 0 .. MaxLevels, UNCHANGED out
    PROVE  IInv'
<1> USE ConstantFacts
<1>1. FilesOK /\ out.ret \in Int
  BY InParts DEF Parts
<1>2. Closed \in Handles
  BY DEF Closed, Handles, Entries
<1>3. files' = [files EXCEPT ![l] = [fd \in Fds |-> Closed]]
  BY DEF Emptied
<1>4. files' \in [1 .. MaxLevels -> [Fds -> Handles]]
  BY <1>1, <1>2, <1>3 DEF FilesOK
<1>5. \A k \in 1 .. MaxLevels, fd \in Fds : files'[k][fd].file \in Created' \cup {0}
  BY <1>1, <1>3, TablesKept DEF FilesOK, OpenFilesExist, Closed
<1> QED
  BY <1>1, <1>4, <1>5, TablesKept, InPartsNext DEF Parts, FilesOK, OpenFilesExist

LEMMA EnterOK == ASSUME IInv, Enter PROVE IInv'
<1>1. level \in 0 .. MaxLevels /\ level < MaxLevels /\ level' = level + 1
  BY DEF IInv, TypeOK, Enter
<1>2. level + 1 \in 1 .. MaxLevels
  BY <1>1, ConstantFacts
<1> QED
  BY <1>1, <1>2, EmptiedOK, ConstantFacts DEF Enter

LEMMA OverlayOK == ASSUME IInv, Overlay PROVE IInv'
<1>1. level \in 0 .. MaxLevels /\ level > 0 /\ level' = level
  BY DEF IInv, TypeOK, Overlay
<1>2. level \in 1 .. MaxLevels
  BY <1>1, ConstantFacts
<1> QED
  BY <1>1, <1>2, EmptiedOK DEF Overlay

LEMMA LeaveOK == ASSUME IInv, Leave PROVE IInv'
<1>1. level \in 0 .. MaxLevels /\ level > 0 /\ level' = level - 1
  BY DEF IInv, TypeOK, Leave
<1>2. level' \in 0 .. MaxLevels
  BY <1>1, ConstantFacts
<1>3. FilesOK /\ out.ret \in Int
  BY InParts DEF Parts
<1>4. FilesOK'
  BY <1>3, TablesKept DEF Leave, FilesOK, OpenFilesExist
<1> QED
  BY <1>2, <1>3, <1>4, TablesKept, InPartsNext DEF Parts, Leave

-----------------------------------------------------------------------------
(* Theorems *)

LEMMA InitOK == Init => IInv
<1> USE ConstantFacts
<1> SUFFICES ASSUME Init PROVE IInv
  OBVIOUS
<1>1. Created = {}
  BY DEF Init, Created
<1>2. TypeOK
  BY DEF Init, TypeOK, Entries, Closed, Cells
<1>3. FilesInside
  BY DEF Init, FilesInside, End
<1>4. OpenFilesExist
  BY DEF Init, OpenFilesExist, Closed
<1>5. FilesDisjoint
  BY <1>1 DEF Init, FilesDisjoint
<1> QED
  BY <1>2, <1>3, <1>4, <1>5 DEF IInv

LEMMA StepOK == IInv /\ [Next]_vars => IInv'
<1> SUFFICES ASSUME IInv, [Next]_vars PROVE IInv'
  OBVIOUS
<1>1. CASE Next
  BY <1>1, OpenatOK, OpenatCreatOK, MkdiratOK, FaccessatOK, ChdirOK, CloseOK, LseekOK,
     ReadOK, WriteOK, SrcOK, Hex0OK, EnterOK, OverlayOK, LeaveOK DEF Next
<1>2. CASE UNCHANGED vars
  <2>1. out'.ret \in Int
    BY <1>2 DEF vars, IInv, TypeOK
  <2> QED
    BY <1>2, <2>1, AnswersOK DEF vars, UNCHANGEDTables
<1> QED
  BY <1>1, <1>2

\* The inductive invariant holds in every behaviour.
THEOREM InductiveInvariant == Spec => []IInv
BY InitOK, StepOK, PTL DEF Spec

\* The tables, the data, every open file and every answer keep their types:
\* no call takes next_file_address or a file's end beyond the data area, and
\* an offset stays a 32-bit word.
THEOREM TypeCorrect == Spec => []TypeOK
<1>1. IInv => TypeOK
  BY DEF IInv
<1> QED
  BY InductiveInvariant, <1>1, PTL

\* As long as only the newest file grows, and only at its end, the files lie
\* one behind the other and next_file_address is the end of the last one.
THEOREM FilesLaidOut == Spec => [](Tidy => FilesDisjoint)
<1>1. IInv => (Tidy => FilesDisjoint)
  BY DEF IInv
<1> QED
  BY InductiveInvariant, <1>1, PTL

-----------------------------------------------------------------------------
(* Sequences *)

LEMMA AsSequence ==
    ASSUME NEW n \in Nat, NEW f, f = [k \in 1 .. n |-> f[k]]
    PROVE  /\ f \in Seq({f[k] : k \in 1 .. n})
           /\ Len(f) = n /\ DOMAIN f = 1 .. n
           /\ n = 0 <=> f = <<>>
<1> DEFINE S == {f[k] : k \in 1 .. n}
<1>1. f \in [1 .. n -> S]
  OBVIOUS
<1>2. f \in Seq(S) /\ Len(f) = n
  BY <1>1
<1>3. DOMAIN f = 1 .. n
  OBVIOUS
<1> HIDE DEF S
<1>4. n = 0 <=> f = <<>>
  BY <1>2, EmptySeq, SeqEqual
<1> QED
  BY <1>2, <1>3, <1>4 DEF S

\* Appending is having one element more.
LEMMA OneMore ==
    ASSUME NEW S, NEW n \in Nat, NEW f \in [1 .. n -> S], NEW g \in [1 .. n + 1 -> S],
           \A k \in 1 .. n : g[k] = f[k]
    PROVE  g = Append(f, g[n + 1])
<1>1. /\ g \in Seq(S) /\ Len(g) = n + 1 /\ g[n + 1] \in S
      /\ f \in Seq(S) /\ Len(f) = n
  OBVIOUS
<1>2. /\ Append(f, g[n + 1]) \in Seq(S) /\ Len(Append(f, g[n + 1])) = n + 1
      /\ \A k \in 1 .. n : Append(f, g[n + 1])[k] = f[k]
      /\ Append(f, g[n + 1])[n + 1] = g[n + 1]
  BY <1>1, AppendProperties
<1>3. \A k \in 1 .. Len(g) : g[k] = Append(f, g[n + 1])[k]
  <2>1. \A k \in 1 .. n + 1 : k = n + 1 \/ k \in 1 .. n
    OBVIOUS
  <2> QED
    BY <1>1, <1>2, <2>1
<1> QED
  BY <1>1, <1>2, <1>3, SeqEqual

\* Part of a sequence is the function that goes through it.
LEMMA PartOf ==
    ASSUME NEW S, NEW f, NEW m \in Nat, NEW n \in Nat, \A k \in m + 1 .. m + n : f[k] \in S,
           NEW g, g = [k \in 1 .. n |-> f[m + k]]
    PROVE  g = SubSeq(f, m + 1, m + n)
<1>1. m + 1 \in Int /\ m + n \in Int
  OBVIOUS
<1>2. /\ SubSeq(f, m + 1, m + n) \in Seq(S)
      /\ Len(SubSeq(f, m + 1, m + n)) = IF m + 1 <= m + n THEN m + n - (m + 1) + 1 ELSE 0
      /\ \A k \in 1 .. m + n - (m + 1) + 1 : SubSeq(f, m + 1, m + n)[k] = f[m + 1 + k - 1]
  BY <1>1, SubSeqProperties
<1>3. /\ (IF m + 1 <= m + n THEN m + n - (m + 1) + 1 ELSE 0) = n
      /\ \A k \in 1 .. n : /\ k \in 1 .. m + n - (m + 1) + 1 /\ m + 1 + k - 1 = m + k
                           /\ m + k \in m + 1 .. m + n
  OBVIOUS
<1>4. \A k \in 1 .. n : SubSeq(f, m + 1, m + n)[k] = f[m + k]
  BY <1>2, <1>3
<1>5. Len(SubSeq(f, m + 1, m + n)) = n
  BY <1>2, <1>3
<1>6. g \in [1 .. n -> S]
  BY <1>3
<1>7. g \in Seq(S) /\ Len(g) = n /\ \A k \in 1 .. n : g[k] = f[m + k]
  BY <1>6
<1> QED
  BY <1>2, <1>4, <1>5, <1>7, SeqEqual

-----------------------------------------------------------------------------
(* The log of files *)

\* Descriptor 0 is that of no file.
ClosedIsEmpty == len[0] = 0

LEMMA Counting ==
    ASSUME IInv
    PROVE  /\ nextFile \in Nat /\ nextFile >= 3 /\ nextFile - FirstFile \in Nat
           /\ nextFile - FirstFile = nextFile - 3
           /\ \A i \in Created : i \in Nat /\ i - 2 \in 1 .. nextFile - 3 /\ i \in Entries
           /\ \A k \in 1 .. nextFile - 3 : k + 2 \in Created /\ k + 2 - 2 = k /\ k + FirstFile - 1 = k + 2
<1> USE ConstantFacts
<1>1. nextFile \in 3 .. MaxFiles
  BY DEF IInv, TypeOK
<1> QED
  BY <1>1 DEF Created, Entries

LEMMA TheLog ==
    ASSUME IInv
    PROVE  /\ FileLog = [k \in 1 .. nextFile - 3 |-> FileLog[k]]
           /\ Len(FileLog) = nextFile - 3 /\ DOMAIN FileLog = 1 .. nextFile - 3
           /\ \A k \in 1 .. nextFile - 3 : FileLog[k] = Record(k + 2)
           /\ \A i \in Created : FileLog[i - 2] = Record(i)
<1>1. FileLog = [k \in 1 .. nextFile - 3 |-> Record(k + FirstFile - 1)]
  BY Counting DEF FileLog
<1>2. FileLog = [k \in 1 .. nextFile - 3 |-> FileLog[k]]
  BY <1>1
<1>3. Len(FileLog) = nextFile - 3 /\ DOMAIN FileLog = 1 .. nextFile - 3
  BY <1>2, Counting, AsSequence
<1>4. \A k \in 1 .. nextFile - 3 : FileLog[k] = Record(k + 2)
  BY <1>1, Counting
<1>5. \A i \in Created : FileLog[i - 2] = Record(i)
  <2> SUFFICES ASSUME NEW i \in Created PROVE FileLog[i - 2] = Record(i)
    OBVIOUS
  <2>1. i - 2 \in 1 .. nextFile - 3 /\ i - 2 + 2 = i
    BY Counting
  <2> QED
    BY <1>4, <2>1
<1> QED
  BY <1>2, <1>3, <1>4, <1>5

LEMMA TheLogThen ==
    (IInv => /\ FileLog = [k \in 1 .. nextFile - 3 |-> FileLog[k]]
             /\ \A k \in 1 .. nextFile - 3 : FileLog[k] = Record(k + 2))'
BY TheLog, PTL

LEMMA TheLogNext ==
    ASSUME IInv'
    PROVE  /\ FileLog' = [k \in 1 .. nextFile' - 3 |-> FileLog'[k]]
           /\ \A k \in 1 .. nextFile' - 3 : FileLog'[k] = Record(k + 2)'
BY TheLogThen

\* The largest of some naturals is the one that is at least as large as all.
LEMMA TheMax ==
    ASSUME NEW S, S \subseteq Nat, NEW m \in S, \A x \in S : m >= x
    PROVE  Max(S) = m /\ Store0!Max(S) = m
<1>1. \A y \in S : y \in Nat /\ (y >= m => y = m)
  OBVIOUS
<1> QED
  BY <1>1 DEF Max, Store0!Max

LEMMA SameMin == \A S : Store0!Min(S) = Min(S)
BY DEF Min, Store0!Min

\* find_file finds what the log has last under a path.
LEMMA Found ==
    ASSUME IInv, NEW p
    PROVE  /\ Store0!Exists(p) <=> FindFile(p) >= 0
           /\ FindFile(p) \in Created \cup {-1}
           /\ FindFile(p) >= 0 => FindFile(p) \in Created /\ Store0!Newest(p) = FindFile(p) - 2
           /\ FindFile(p) < 0 <=> ~(FindFile(p) >= 0)
<1>1. FindFile(p) \in Created \cup {-1}
  BY FoundExists DEF IInv
<1>2. Created \subseteq Nat
  BY Counting
<1> DEFINE K == {k \in DOMAIN FileLog : FileLog[k].path = p}
<1>3. \A k \in 1 .. nextFile - 3 : k \in K <=> k + 2 \in Named(p)
  BY TheLog, Counting DEF Named, Record
<1>4. K \subseteq 1 .. nextFile - 3
  BY TheLog
<1>5. \A i \in Named(p) : i \in Created /\ i - 2 \in 1 .. nextFile - 3 /\ i - 2 + 2 = i
  BY Counting DEF Named
<1>6. Store0!Exists(p) <=> K # {}
  BY DEF Store0!Exists
<1>7. K # {} <=> Named(p) # {}
  BY <1>3, <1>4, <1>5
<1>8. Named(p) = {} => FindFile(p) = -1
  BY DEF FindFile
<1>9. ASSUME Named(p) # {}
      PROVE  FindFile(p) \in Created /\ Store0!Newest(p) = FindFile(p) - 2
  <2>1. Named(p) \subseteq Nat /\ \A i \in Named(p) : i <= nextFile
    BY <1>2, Counting DEF Named, Created
  <2>2. PICK m \in Named(p) : \A i \in Named(p) : m >= i
    BY <1>9, <2>1, Counting, GreatestElement
  <2>3. FindFile(p) = m
    BY <1>9, <2>1, <2>2, TheMax DEF FindFile
  <2>4. m - 2 \in K
    BY <1>3, <1>5, <2>2
  <2>5. \A k \in K : m - 2 >= k
    <3> SUFFICES ASSUME NEW k \in K PROVE m - 2 >= k
      OBVIOUS
    <3>1. k \in Nat /\ k + 2 \in Named(p)
      BY <1>3, <1>4
    <3>2. m \in Nat /\ m >= k + 2
      BY <2>1, <2>2, <3>1
    <3> QED
      BY <3>1, <3>2
  <2>6. K \subseteq Nat
    BY <1>4
  <2>7. Store0!Newest(p) = Store0!Max(K)
    BY DEF Store0!Newest
  <2> HIDE DEF K
  <2> QED
    BY <1>5, <2>2, <2>3, <2>4, <2>5, <2>6, <2>7, TheMax
<1> HIDE DEF K
<1>10. \A i \in Created : i >= 0
  BY <1>2
<1>11. Named(p) # {} <=> FindFile(p) >= 0
  BY <1>8, <1>9, <1>10
<1>12. FindFile(p) < 0 <=> ~(FindFile(p) >= 0)
  <2>1. \A x : x \in Created \cup {-1} => (x < 0 <=> ~(x >= 0))
    <3>1. \A x : x \in Created => x \in Nat
      BY <1>2
    <3> QED
      BY <3>1
  <2> QED
    BY <1>1, <2>1
<1> QED
  BY <1>1, <1>6, <1>7, <1>9, <1>11, <1>12

-----------------------------------------------------------------------------
(* Open files *)

LEMMA TheOpen ==
    ASSUME IInv
    PROVE  /\ level \in 0 .. MaxLevels
           /\ OpenLog = [l \in 1 .. level |-> OpenLog[l]]
           /\ Len(OpenLog) = level /\ (level > 0 <=> OpenLog # <<>>)
           /\ \A l \in 1 .. level : OpenLog[l] = [fd \in Fds |-> Reference(files[l][fd])]
<1>1. level \in 0 .. MaxLevels /\ level \in Nat
  BY ConstantFacts DEF IInv, TypeOK
<1>2. OpenLog = [l \in 1 .. level |-> OpenLog[l]]
  BY DEF OpenLog
<1>3. Len(OpenLog) = level /\ (level = 0 <=> OpenLog = <<>>)
  BY <1>1, <1>2, AsSequence
<1>4. level > 0 <=> level # 0
  BY <1>1
<1>5. \A l \in 1 .. level : OpenLog[l] = [fd \in Fds |-> Reference(files[l][fd])]
  BY DEF OpenLog
<1> QED
  BY <1>1, <1>2, <1>3, <1>4, <1>5

\* The descriptors of the running program.
LEMMA Running ==
    ASSUME IInv, level > 0
    PROVE  /\ level \in 1 .. MaxLevels /\ level \in 1 .. level /\ OpenLog # <<>> /\ Len(OpenLog) = level
           /\ Store0!Handles = [fd \in Fds |-> Reference(Handle(fd))]
           /\ Store0!Free = Free
           /\ \A fd \in Fds :
                /\ Store0!Handles[fd] = Reference(Handle(fd))
                /\ Store0!Handles[fd].off = Handle(fd).off
                /\ Store0!Handles[fd].file = 0 <=> File(fd) = 0
                /\ File(fd) # 0 => File(fd) \in Created /\ Store0!Handles[fd].file = File(fd) - 2
<1>1. level \in 1 .. MaxLevels /\ level \in 1 .. level /\ OpenLog # <<>> /\ Len(OpenLog) = level
  BY TheOpen, ConstantFacts
<1>2. Store0!Handles = [fd \in Fds |-> Reference(Handle(fd))]
  BY <1>1, TheOpen DEF Store0!Handles, Handle
<1>3. ASSUME NEW fd \in Fds
      PROVE  /\ Store0!Handles[fd] = Reference(Handle(fd))
             /\ Store0!Handles[fd].off = Handle(fd).off
             /\ Store0!Handles[fd].file = 0 <=> File(fd) = 0
             /\ File(fd) # 0 => File(fd) \in Created /\ Store0!Handles[fd].file = File(fd) - 2
  <2>1. Store0!Handles[fd] = Reference(Handle(fd))
    BY <1>2
  <2>2. File(fd) \in Created \cup {0}
    BY HandleType DEF IInv
  <2>3. File(fd) # 0 => File(fd) \in Nat /\ File(fd) >= 3 /\ FirstFile = 3
    BY <2>2, Counting, ConstantFacts DEF Created
  <2>4. File(fd) # 0 => File(fd) - FirstFile + 1 # 0 /\ File(fd) - FirstFile + 1 = File(fd) - 2
    BY <2>3
  <2>5. /\ Reference(Handle(fd)).off = Handle(fd).off
        /\ Reference(Handle(fd)).file = IF File(fd) = 0 THEN 0 ELSE File(fd) - FirstFile + 1
    BY DEF Reference, File
  <2> QED
    BY <2>1, <2>2, <2>4, <2>5
<1>4. Store0!Free = Free
  BY <1>3 DEF Store0!Free, Free
<1> QED
  BY <1>1, <1>2, <1>3, <1>4

\* What a new handle makes of the open files.
LEMMA OneHandle ==
    ASSUME IInv, level > 0, NEW fd \in Fds, NEW h, files' = With(fd, h), UNCHANGED level
    PROVE  OpenLog' = Store0!With(fd, Reference(h))
<1> DEFINE new == [Store0!Handles EXCEPT ![fd] = Reference(h)]
           one == [files[level] EXCEPT ![fd] = h]
<1>1. level \in 1 .. MaxLevels /\ level \in 1 .. level /\ Len(OpenLog) = level
  BY Running
<1>2. files \in [1 .. MaxLevels -> [Fds -> Handles]]
  BY DEF IInv, TypeOK, Handles
<1>3. files' = [files EXCEPT ![level] = one]
  BY DEF With
<1>4. \A c \in Fds : one[c] = IF c = fd THEN h ELSE files[level][c]
  <2>1. files[level] \in [Fds -> Handles]
    BY <1>1, <1>2
  <2> QED
    BY <2>1
<1>5. new = [c \in Fds |-> Reference(one[c])]
  <2>1. Store0!Handles = [c \in Fds |-> Reference(files[level][c])]
    BY Running DEF Handle
  <2> HIDE DEF one
  <2>2. new = [c \in Fds |-> IF c = fd THEN Reference(h) ELSE Reference(files[level][c])]
    BY <2>1
  <2> HIDE DEF new
  <2> QED
    BY <1>4, <2>2
<1> HIDE DEF new, one
<1>6. OpenLog' = [l \in 1 .. level |-> [c \in Fds |-> Reference(files'[l][c])]]
  BY DEF OpenLog, Reference
<1>7. OpenLog = [l \in 1 .. level |-> [c \in Fds |-> Reference(files[l][c])]]
  BY DEF OpenLog
<1>8. \A l \in 1 .. level : l \in 1 .. MaxLevels
  BY <1>1, ConstantFacts
<1>9. \A l \in 1 .. level : files'[l] = IF l = level THEN one ELSE files[l]
  BY <1>2, <1>3, <1>8
<1>10. \A l \in 1 .. level : [c \in Fds |-> Reference(files'[l][c])] =
         IF l = level THEN new ELSE [c \in Fds |-> Reference(files[l][c])]
  BY <1>5, <1>9
<1>11. OpenLog' = [OpenLog EXCEPT ![level] = new]
  BY <1>6, <1>7, <1>10
<1> QED
  BY <1>1, <1>11 DEF Store0!With, new

LEMMA OpenKept == ASSUME UNCHANGED <<files, level>> PROVE OpenLog' = OpenLog
BY DEF OpenLog, Reference

LEMMA FilesKept == ASSUME UNCHANGEDTables PROVE FileLog' = FileLog
BY DEF UNCHANGEDTables, FileLog, Record, Contents

\* An offset that moves.
LEMMA Move ==
    ASSUME IInv, level > 0, NEW fd \in Fds, NEW off, files' = Moved(fd, off), UNCHANGED level
    PROVE  OpenLog' = Store0!Moved(fd, off)
<1> DEFINE h == [file |-> File(fd), off |-> off % Offsets]
<1>1. OpenLog' = Store0!With(fd, Reference(h))
  BY OneHandle DEF Moved
<1>2. Reference(h) = [file |-> Store0!Handles[fd].file, off |-> off % Offsets]
  <2>1. Store0!Handles[fd] = Reference(Handle(fd))
    BY Running
  <2> QED
    BY <2>1 DEF Reference, File
<1> QED
  BY <1>1, <1>2 DEF Store0!Moved

\* The file behind a descriptor.
LEMMA Behind ==
    ASSUME IInv, ClosedIsEmpty, level > 0, NEW fd \in Fds
    PROVE  /\ len[File(fd)] \in Nat
           /\ Store0!BytesOf(fd) = [k \in 1 .. len[File(fd)] |-> data[addr[File(fd)] + k - 1]]
           /\ Len(Store0!BytesOf(fd)) = len[File(fd)]
<1>1. len[File(fd)] \in Nat
  BY HandleType DEF IInv
<1> DEFINE c == [k \in 1 .. len[File(fd)] |-> data[addr[File(fd)] + k - 1]]
<1>2. Len(c) = len[File(fd)] /\ (len[File(fd)] = 0 <=> c = <<>>)
  <2>1. c = [k \in 1 .. len[File(fd)] |-> c[k]]
    OBVIOUS
  <2> HIDE DEF c
  <2> QED
    BY <1>1, <2>1, AsSequence
<1>3. CASE File(fd) = 0
  <2>1. len[File(fd)] = 0
    BY <1>3 DEF ClosedIsEmpty
  <2>2. Store0!BytesOf(fd) = <<>>
    BY <1>3, Running DEF Store0!BytesOf
  <2> QED
    BY <1>1, <1>2, <2>1, <2>2
<1>4. CASE File(fd) # 0
  <2>1. File(fd) \in Created /\ Store0!Handles[fd].file = File(fd) - 2 /\ Store0!Handles[fd].file # 0
    BY <1>4, Running
  <2>2. FileLog[File(fd) - 2] = Record(File(fd))
    BY <2>1, TheLog
  <2>3. Store0!BytesOf(fd) = Contents(File(fd))
    BY <2>1, <2>2 DEF Store0!BytesOf, Record
  <2> QED
    BY <1>1, <1>2, <2>3 DEF Contents
<1> QED
  BY <1>3, <1>4

-----------------------------------------------------------------------------
(* Every call is a step of FileStore, or none *)

\* openat_alloc_fd opens what the log has in the place of entry i.
LEMMA Allocated ==
    ASSUME IInv, level > 0, NEW i \in Nat, i >= 3, AllocFd(i), UNCHANGED level
    PROVE  \/ /\ Store0!Free # {}
              /\ OpenLog' = Store0!Opened(Store0!Min(Store0!Free), i - 2)
              /\ Store0!Returns(Store0!Min(Store0!Free))
           \/ /\ Store0!Free = {}
              /\ OpenLog' = OpenLog
              /\ Store0!Returns(-1)
<1>1. Store0!Free = Free /\ Store0!Min(Free) = Min(Free)
  BY Running, SameMin
<1>2. CASE Free # {} /\ files' = Opened(Min(Free), i) /\ Returns(Min(Free))
  <2>1. Min(Free) \in Fds
    BY <1>2, MinIn, ConstantFacts DEF Free
  <2>2. OpenLog' = Store0!With(Min(Free), Reference([file |-> i, off |-> 0]))
    BY <1>2, <2>1, OneHandle DEF Opened
  <2>3. Reference([file |-> i, off |-> 0]) = [file |-> i - 2, off |-> 0]
    BY ConstantFacts DEF Reference
  <2> QED
    BY <1>1, <1>2, <2>2, <2>3 DEF Store0!Opened, Store0!Returns, Returns
<1>3. CASE Free = {} /\ Returns(-1) /\ UNCHANGED files
  BY <1>1, <1>3, OpenKept DEF Store0!Returns, Returns
<1> QED
  BY <1>2, <1>3 DEF AllocFd

LEMMA OpenatRefines ==
    ASSUME IInv, NEW p \in Paths, Openat(p)
    PROVE  Store0!Open(p)
<1>1. level > 0 /\ OpenLog # <<>> /\ UNCHANGED level /\ FileLog' = FileLog
  BY Running, FilesKept DEF Openat
<1>2. CASE FindFile(p) >= 0 /\ AllocFd(FindFile(p))
  <2>1. Store0!Exists(p) /\ Store0!Newest(p) = FindFile(p) - 2 /\ FindFile(p) \in Created
    BY <1>2, Found
  <2>2. FindFile(p) \in Nat /\ FindFile(p) >= 3
    BY <2>1, Counting, ConstantFacts DEF Created
  <2> QED
    BY <1>1, <1>2, <2>1, <2>2, Allocated DEF Store0!Open
<1>3. CASE FindFile(p) < 0 /\ Returns(-1) /\ UNCHANGED files
  BY <1>1, <1>3, Found, OpenKept DEF Store0!Open, Store0!Returns, Returns
<1> QED
  BY <1>2, <1>3 DEF Openat

LEMMA FaccessatRefines ==
    ASSUME IInv, NEW p \in Paths, Faccessat(p)
    PROVE  Store0!Access(p)
BY Found, Running, FilesKept, OpenKept DEF Faccessat, Store0!Access, Store0!Returns, Returns

LEMMA ChdirRefines ==
    ASSUME IInv, NEW p \in Paths, Chdir(p)
    PROVE  Store0!EnterDirectory(p)
<1>1. level > 0 /\ OpenLog # <<>> /\ FileLog' = FileLog /\ OpenLog' = OpenLog
  BY Running, FilesKept, OpenKept DEF Chdir
<1>2. ChdirAllowed(p) <=> Store0!Exists(p) /\ FileLog[Store0!Newest(p)].bytes = <<>>
  <2>1. CASE FindFile(p) >= 0
    <3> DEFINE i == FindFile(p)
    <3>1. i \in Created /\ Store0!Exists(p) /\ Store0!Newest(p) = i - 2
      BY <2>1, Found
    <3> HIDE DEF i
    <3>2. FileLog[i - 2].bytes = Contents(i)
      <4>1. FileLog[i - 2] = Record(i)
        BY <3>1, TheLog
      <4> QED
        BY <4>1 DEF Record
    <3>3. len[i] \in Nat /\ Contents(i) \in [1 .. len[i] -> Cells]
      BY <3>1, Counting, ContentsType
    <3>4. len[i] = 0 <=> Contents(i) = <<>>
      BY <3>3, AsSequence
    <3> QED
      BY <2>1, <3>1, <3>2, <3>4 DEF ChdirAllowed, i
  <2>2. CASE ~(FindFile(p) >= 0)
    BY <2>2, Found DEF ChdirAllowed
  <2> QED
    BY <2>1, <2>2
<1> QED
  BY <1>1, <1>2 DEF Chdir, Store0!EnterDirectory, Store0!Returns, Returns

LEMMA CloseRefines ==
    ASSUME IInv, NEW fd \in Fds, Close(fd)
    PROVE  Store0!Close(fd)
<1> DEFINE h == [file |-> 0, off |-> Handle(fd).off]
<1>1. level > 0 /\ OpenLog # <<>> /\ FileLog' = FileLog
  BY Running, FilesKept DEF Close
<1>2. OpenLog' = Store0!With(fd, Reference(h))
  BY OneHandle DEF Close
<1>3. Reference(h) = [file |-> 0, off |-> Store0!Handles[fd].off]
  <2>1. Store0!Handles[fd].off = Handle(fd).off
    BY <1>1, Running
  <2> QED
    BY <2>1 DEF Reference
<1> QED
  BY <1>1, <1>2, <1>3 DEF Close, Store0!Close, Store0!Returns, Returns

LEMMA LseekRefines ==
    ASSUME IInv, ClosedIsEmpty, NEW fd \in Fds, NEW off \in Seeks, Lseek(fd, off)
    PROVE  Store0!Seek(fd, off)
<1>1. level > 0 /\ OpenLog # <<>> /\ FileLog' = FileLog /\ UNCHANGED level
  BY Running, FilesKept DEF Lseek
<1>2. PICK base \in {0, Handle(fd).off, len[File(fd)]} :
        files' = Moved(fd, base + off) /\ Returns(base + off)
  BY DEF Lseek
<1>3. OpenLog' = Store0!Moved(fd, base + off)
  BY <1>1, <1>2, Move
<1>4. base \in {0, Store0!Handles[fd].off, Len(Store0!BytesOf(fd))}
  BY <1>1, <1>2, Running, Behind
<1>5. Store0!Returns(base + off)
  BY <1>2 DEF Returns, Store0!Returns
<1> QED
  BY <1>1, <1>3, <1>4, <1>5 DEF Store0!Seek

LEMMA ReadRefines ==
    ASSUME IInv, ClosedIsEmpty, NEW fd \in Fds, NEW n \in Counts, Read(fd, n)
    PROVE  Store0!Read(fd, n)
<1> DEFINE bytes == Store0!BytesOf(fd)
           off   == Handle(fd).off
           l     == len[File(fd)]
           m     == Available(fd, n)
           got   == [k \in 1 .. m |-> data[addr[File(fd)] + off + k - 1]]
<1>1. level > 0 /\ OpenLog # <<>> /\ FileLog' = FileLog /\ UNCHANGED level
  BY Running, FilesKept DEF Read
<1>2. out' = [ret |-> m, bytes |-> got] /\ files' = Moved(fd, off + m)
  BY DEF Read
<1>3. off \in Nat /\ l \in Nat /\ addr[File(fd)] \in Nat /\ n \in Nat
  BY <1>1, HandleType, ConstantFacts DEF IInv
<1>4. m = IF off >= l THEN 0 ELSE IF off + n <= l THEN n ELSE l - off
  <2>1. Max({l - off, 0}) = IF off >= l THEN 0 ELSE l - off
    BY <1>3, MaxOfTwo
  <2>2. l - off \in Int /\ Max({l - off, 0}) \in Int
    BY <1>3, <2>1
  <2>3. m = IF n <= Max({l - off, 0}) THEN n ELSE Max({l - off, 0})
    <3>1. m = Min({n, Max({l - off, 0})})
      BY DEF Available
    <3> DEFINE rest == Max({l - off, 0})
    <3>2. n \in Int /\ rest \in Int
      BY <1>3, <2>2
    <3> HIDE DEF rest, m
    <3>3. Min({n, rest}) = IF n <= rest THEN n ELSE rest
      BY <3>2, MinOfTwo
    <3> QED
      BY <3>1, <3>3 DEF rest
  <2> HIDE DEF m
  <2> QED
    BY <1>3, <2>1, <2>3
<1>5. Store0!Min({off + n, Len(bytes)}) = IF off + n <= l THEN off + n ELSE l
  <2>1. Len(bytes) = l /\ off + n \in Int /\ l \in Int
    BY <1>1, <1>3, Behind
  <2> QED
    BY <2>1, SameMin, MinOfTwo
<1>6. bytes = [k \in 1 .. l |-> data[addr[File(fd)] + k - 1]]
  BY <1>1, Behind
<1>7. Store0!Handles[fd].off = off
  BY <1>1, Running
<1>8. m \in Nat /\ (m # 0 => off + m <= l)
  <2> HIDE DEF m
  <2> QED
    BY <1>3, <1>4
<1> HIDE DEF bytes, m, off, l
<1>9. got = SubSeq(bytes, off + 1, Store0!Min({off + n, Len(bytes)}))
  <2>1. CASE m = 0
    <3>1. got = <<>>
      <4>1. got = [k \in 1 .. m |-> got[k]]
        OBVIOUS
      <4> HIDE DEF got
      <4> QED
        BY <1>8, <2>1, <4>1, AsSequence
    <3>2. Store0!Min({off + n, Len(bytes)}) \in Int /\ Store0!Min({off + n, Len(bytes)}) < off + 1
      BY <1>3, <1>4, <1>5, <2>1
    <3> HIDE DEF got
    <3> QED
      <4> DEFINE e == Store0!Min({off + n, Len(bytes)})
      <4>1. off + 1 \in Int /\ e \in Int /\ e < off + 1
        BY <1>3, <3>2
      <4> HIDE DEF e
      <4>2. SubSeq(bytes, off + 1, e) = <<>>
        BY <4>1, SubSeqEmpty
      <4> QED
        BY <3>1, <4>2 DEF e
  <2>2. CASE m # 0
    <3>1. Store0!Min({off + n, Len(bytes)}) = off + m
      BY <1>3, <1>4, <1>5, <2>2
    <3> DEFINE S == {bytes[k] : k \in 1 .. l}
    <3>2. \A k \in off + 1 .. off + m : bytes[k] \in S
      BY <1>3, <1>8, <2>2
    <3>3. \A k \in 1 .. m : off + k \in 1 .. l
      BY <1>3, <1>8, <2>2
    <3>4. got = [k \in 1 .. m |-> bytes[off + k]]
      <4>1. \A k \in 1 .. m : bytes[off + k] = data[addr[File(fd)] + off + k - 1]
        <5> SUFFICES ASSUME NEW k \in 1 .. m
                     PROVE  bytes[off + k] = data[addr[File(fd)] + off + k - 1]
          OBVIOUS
        <5>1. bytes[off + k] = data[addr[File(fd)] + (off + k) - 1]
          BY <1>6, <3>3
        <5>2. addr[File(fd)] + (off + k) - 1 = addr[File(fd)] + off + k - 1
          BY <1>3, <1>8
        <5> QED
          BY <5>1, <5>2
      <4> QED
        BY <4>1
    <3> HIDE DEF S, got
    <3> QED
      <4>1. got = SubSeq(bytes, off + 1, off + m)
        BY <1>3, <1>8, <3>2, <3>4, PartOf
      <4> QED
        BY <3>1, <4>1
  <2> QED
    BY <2>1, <2>2
<1>10. Len(got) = m
  <2>1. got = [k \in 1 .. m |-> got[k]]
    OBVIOUS
  <2> HIDE DEF got
  <2> QED
    BY <1>8, <2>1, AsSequence
<1>11. OpenLog' = Store0!Moved(fd, off + m)
  BY <1>1, <1>2, Move
<1> HIDE DEF got
<1> QED
  BY <1>1, <1>2, <1>7, <1>9, <1>10, <1>11 DEF Store0!Read, bytes

\* Files do not overlap, whatever lies between them.
LEMMA InOrder ==
    ASSUME IInv, Tidy
    PROVE  \A i \in Created : /\ End(i) \in Nat /\ addr[i] \in Nat /\ len[i] \in Nat
                             /\ End(i) = addr[i] + len[i] /\ End(i) <= nextAddr
                             /\ \A j \in Created : i < j => End(i) <= addr[j]
<1> USE ConstantFacts
<1>1. \A i \in Created : /\ End(i) \in Nat /\ addr[i] \in Nat /\ len[i] \in Nat
                         /\ End(i) = addr[i] + len[i] /\ addr[i] <= End(i)
  BY Counting DEF IInv, TypeOK, End
<1>2. \A i \in Created : End(i) = IF i = nextFile - 1 THEN nextAddr ELSE addr[i + 1]
  BY DEF IInv, FilesDisjoint
<1>3. ASSUME NEW i \in Created, NEW z \in Created, i < z, ~(End(i) <= addr[z])
      PROVE  FALSE
  <2> DEFINE B == {j \in Created : i < j /\ ~(End(i) <= addr[j])}
  <2>1. B \subseteq Nat /\ B # {}
    BY <1>3, Counting
  <2>2. PICK j \in B : \A k \in B : j <= k
    <3> HIDE DEF B
    <3> QED
      BY <2>1, LeastElement
  <2>3. j \in Created /\ i < j /\ ~(End(i) <= addr[j])
    OBVIOUS
  <2>4. /\ i \in Nat /\ i >= 3 /\ j \in Nat /\ j - 1 \in Nat /\ j - 1 # nextFile - 1 /\ j - 1 + 1 = j
        /\ j - 1 \in Created /\ (j - 1 = i \/ i < j - 1)
    BY <1>3, <2>3, Counting DEF Created
  <2>5. End(j - 1) = addr[j]
    BY <1>2, <2>4
  <2>6. i < j - 1
    BY <1>1, <2>3, <2>4, <2>5
  <2>7. ~(j <= j - 1)
    BY <2>4
  <2>8. End(i) <= addr[j - 1]
    BY <2>2, <2>4, <2>6, <2>7
  <2> QED
    BY <1>1, <2>3, <2>4, <2>5, <2>8
<1>4. ASSUME NEW i \in Created PROVE End(i) <= nextAddr
  <2>1. nextFile - 1 \in Created /\ (i = nextFile - 1 \/ i < nextFile - 1)
    BY Counting DEF Created
  <2>2. End(nextFile - 1) = nextAddr
    BY <1>2, <2>1
  <2>3. CASE i < nextFile - 1
    <3>1. End(i) <= addr[nextFile - 1]
      BY <1>3, <2>1, <2>3
    <3> QED
      BY <1>1, <2>1, <2>2, <3>1
  <2> QED
    BY <1>1, <2>1, <2>2, <2>3
<1> QED
  BY <1>1, <1>3, <1>4

\* A new entry is one more file at the end of the log.
LEMMA LogGrows ==
    ASSUME IInv, IInv', NEW p, NewEntry(p),
           \A i \in Created : /\ len'[i] = len[i]
                             /\ \A k \in 1 .. len[i] : data'[addr[i] + k - 1] = data[addr[i] + k - 1]
    PROVE  FileLog' = Append(FileLog, [path  |-> p,
                                       bytes |-> [k \in 1 .. len'[nextFile] |-> data'[nextAddr + k - 1]]])
<1> USE ConstantFacts
<1>1. /\ nextFile \in Nat /\ nextFile >= 3 /\ nextFile' = nextFile + 1 /\ nextFile \in Entries
      /\ nextFile - 3 \in Nat /\ nextFile' - 3 = nextFile - 3 + 1 /\ nextFile - 3 + 1 + 2 = nextFile
  BY Counting DEF NewEntry, Entries
<1>2. /\ name' = [name EXCEPT ![nextFile] = p] /\ addr' = [addr EXCEPT ![nextFile] = nextAddr]
      /\ DOMAIN name = Entries /\ DOMAIN addr = Entries
  BY DEF NewEntry, IInv, TypeOK
<1>3. ASSUME NEW i \in Created PROVE Record(i)' = Record(i)
  <2>1. i \in Entries /\ i # nextFile
    BY <1>1, Counting DEF Created
  <2>2. name'[i] = name[i] /\ addr'[i] = addr[i] /\ len'[i] = len[i]
    BY <1>2, <2>1
  <2>3. [k \in 1 .. len'[i] |-> data'[addr'[i] + k - 1]] = [k \in 1 .. len[i] |-> data[addr[i] + k - 1]]
    BY <2>2
  <2> QED
    BY <2>2, <2>3 DEF Record, Contents
<1> DEFINE new == [path |-> p, bytes |-> [k \in 1 .. len'[nextFile] |-> data'[nextAddr + k - 1]]]
           n   == nextFile - 3
<1>4. ASSUME NEW j \in Nat, j + 2 = nextFile PROVE Record(j + 2)' = new
  <2>1. name'[j + 2] = p /\ addr'[j + 2] = nextAddr /\ len'[j + 2] = len'[nextFile]
    BY <1>1, <1>2, <1>4
  <2> QED
    BY <2>1 DEF Record, Contents
<1>5. n \in Nat /\ n + 1 \in Nat /\ n + 1 + 2 = nextFile /\ n + 1 \in 1 .. n + 1
  BY <1>1
<1>6. /\ FileLog' = [k \in 1 .. n + 1 |-> FileLog'[k]]
      /\ \A k \in 1 .. n + 1 : FileLog'[k] = Record(k + 2)'
  <2>1. nextFile' - 3 = n + 1
    BY <1>1
  <2> HIDE DEF n
  <2> QED
    BY <2>1, TheLogNext
<1>7. /\ FileLog = [k \in 1 .. n |-> FileLog[k]]
      /\ \A k \in 1 .. n : FileLog[k] = Record(k + 2) /\ k + 2 \in Created
  BY TheLog, Counting
<1> HIDE DEF n, new
<1>8. FileLog'[n + 1] = new
  <2>1. PICK j \in 1 .. n + 1 : j = n + 1
    BY <1>5
  <2>2. j \in Nat /\ j + 2 = nextFile
    BY <1>5, <2>1
  <2>3. Record(j + 2)' = new
    BY <1>4, <2>2
  <2> QED
    BY <1>6, <2>1, <2>3
<1>9. \A k \in 1 .. n : FileLog'[k] = FileLog[k]
  <2> SUFFICES ASSUME NEW k \in 1 .. n PROVE FileLog'[k] = FileLog[k]
    OBVIOUS
  <2>1. k \in 1 .. n + 1
    BY <1>5
  <2>2. Record(k + 2)' = Record(k + 2)
    BY <1>3, <1>7
  <2> QED
    BY <1>6, <1>7, <2>1, <2>2
<1>10. FileLog' = Append(FileLog, FileLog'[n + 1])
  <2> DEFINE g == FileLog'
             f == FileLog
  <2>1. /\ g = [k \in 1 .. n + 1 |-> g[k]] /\ f = [k \in 1 .. n |-> f[k]]
        /\ \A k \in 1 .. n : g[k] = f[k]
    BY <1>6, <1>7, <1>9
  <2> HIDE DEF f, g
  <2> DEFINE S == {g[k] : k \in 1 .. n + 1}
  <2>2. g \in [1 .. n + 1 -> S]
    BY <2>1
  <2>3. \A k \in 1 .. n : k \in 1 .. n + 1
    BY <1>5
  <2>4. \A k \in 1 .. n : f[k] \in S
    BY <2>1, <2>3
  <2> HIDE DEF S
  <2>5. f \in [1 .. n -> S]
    BY <2>1, <2>4
  <2>6. n \in Nat /\ \A k \in 1 .. n : g[k] = f[k]
    BY <1>5, <2>1
  <2>7. g = Append(f, g[n + 1])
    BY <2>2, <2>5, <2>6, OneMore
  <2> QED
    BY <2>7 DEF f, g
<1> QED
  BY <1>8, <1>10 DEF new

\* The bytes that a shell command stores are the new file.
LEMMA Stored ==
    ASSUME IInv, IInv', Tidy, NEW p, NEW bytes \in Seq(Cells), Store(p, bytes)
    PROVE  FileLog' = Store0!WithNew(p, bytes)
<1> USE ConstantFacts
<1>1. Len(bytes) \in Nat /\ bytes = [k \in 1 .. Len(bytes) |-> bytes[k]]
  OBVIOUS
<1>2. /\ nextAddr \in Nat /\ nextAddr + Len(bytes) <= DataCap /\ NewEntry(p)
      /\ len' = [len EXCEPT ![nextFile] = Len(bytes)]
      /\ \A a \in 0 .. DataCap - 1 :
           data'[a] = IF a \in nextAddr .. nextAddr + Len(bytes) - 1
                      THEN bytes[a - nextAddr + 1] ELSE data[a]
  BY DEF IInv, TypeOK, Store
<1>3. nextFile \in Entries /\ nextFile \in Nat /\ len'[nextFile] = Len(bytes)
  BY <1>2, Counting DEF Entries, NewEntry, IInv, TypeOK
<1>4. ASSUME NEW i \in Created
      PROVE  /\ len'[i] = len[i]
             /\ \A k \in 1 .. len[i] : data'[addr[i] + k - 1] = data[addr[i] + k - 1]
  <2>1. i # nextFile /\ i \in Entries /\ DOMAIN len = Entries
    <3>1. i # nextFile /\ i \in Entries
      BY Counting DEF Created
    <3>2. DOMAIN len = Entries
      BY DEF IInv, TypeOK
    <3> QED
      BY <3>1, <3>2
  <2>2. addr[i] \in Nat /\ len[i] \in Nat /\ addr[i] + len[i] <= nextAddr
    BY InOrder
  <2>3. \A k \in 1 .. len[i] : /\ addr[i] + k - 1 \in 0 .. DataCap - 1
                              /\ addr[i] + k - 1 < nextAddr
    BY <1>1, <1>2, <2>2
  <2>4. \A k \in 1 .. len[i] : ~(addr[i] + k - 1 \in nextAddr .. nextAddr + Len(bytes) - 1)
    BY <1>2, <2>3
  <2> QED
    BY <1>2, <2>1, <2>3, <2>4
<1>5. ASSUME NEW k \in 1 .. Len(bytes) PROVE data'[nextAddr + k - 1] = bytes[k]
  <2>1. /\ nextAddr + k - 1 \in nextAddr .. nextAddr + Len(bytes) - 1
        /\ nextAddr + k - 1 \in 0 .. DataCap - 1
        /\ nextAddr + k - 1 - nextAddr + 1 = k
    BY <1>1, <1>2
  <2> QED
    BY <1>2, <2>1
<1>6. [k \in 1 .. Len(bytes) |-> data'[nextAddr + k - 1]] = bytes
  BY <1>1, <1>5
<1>7. FileLog' = Append(FileLog, [path |-> p,
                                 bytes |-> [k \in 1 .. len'[nextFile] |-> data'[nextAddr + k - 1]]])
  BY <1>2, <1>4, LogGrows
<1> QED
  BY <1>3, <1>6, <1>7 DEF Store0!WithNew

\* An empty entry.
LEMMA EmptyFile ==
    ASSUME IInv, IInv', NEW p, NewEntry(p), len' = [len EXCEPT ![nextFile] = 0], UNCHANGED data
    PROVE  FileLog' = Store0!WithNew(p, <<>>)
<1>1. \A i \in Created : i # nextFile /\ i \in Entries
  BY Counting DEF Created
<1>2. nextFile \in Entries /\ DOMAIN len = Entries
  BY Counting, ConstantFacts DEF Entries, NewEntry, IInv, TypeOK
<1>3. \A i \in Created : len'[i] = len[i]
  BY <1>1, <1>2
<1> DEFINE new == [k \in 1 .. len'[nextFile] |-> data'[nextAddr + k - 1]]
<1>4. new = <<>>
  <2>1. len'[nextFile] = 0
    BY <1>2
  <2>2. new = [k \in 1 .. 0 |-> new[k]]
    BY <2>1
  <2> HIDE DEF new
  <2> QED
    BY <2>2, AsSequence
<1>5. FileLog' = Append(FileLog, [path |-> p, bytes |-> new])
  BY <1>3, LogGrows
<1> QED
  BY <1>4, <1>5 DEF Store0!WithNew

LEMMA Reaches ==
    ASSUME IInv, NEW p
    PROVE  ParentExists(p) <=> Store0!Reachable(p)
BY Found DEF ParentExists, Store0!Reachable

LEMMA OpenatCreatRefines ==
    ASSUME IInv, IInv', NEW p \in Paths, OpenatCreat(p)
    PROVE  Store0!Create(p)
<1>1. level > 0 /\ OpenLog # <<>> /\ UNCHANGED level
  BY Running DEF OpenatCreat
<1>2. CASE ParentExists(p)
  <2>1. FileLog' = Store0!WithNew(p, <<>>) /\ AllocFd(nextFile) /\ Store0!Reachable(p)
    BY <1>2, EmptyFile, Reaches DEF OpenatCreat
  <2>2. nextFile \in Nat /\ nextFile >= 3 /\ nextFile - 2 = Len(FileLog) + 1
    BY Counting, TheLog
  <2> QED
    BY <1>1, <2>1, <2>2, Allocated DEF Store0!Create
<1>3. CASE ~ParentExists(p)
  BY <1>1, <1>3, Reaches, FilesKept, OpenKept DEF OpenatCreat, Store0!Create, Store0!Returns, Returns
<1> QED
  BY <1>2, <1>3

LEMMA MkdiratRefines ==
    ASSUME IInv, IInv', NEW p \in Paths, Mkdirat(p)
    PROVE  Store0!Mkdir(p)
<1>1. OpenLog # <<>> /\ OpenLog' = OpenLog
  BY Running, OpenKept DEF Mkdirat
<1>2. CASE ParentExists(p)
  BY <1>1, <1>2, EmptyFile, Reaches DEF Mkdirat, Store0!Mkdir, Store0!Returns, Returns
<1>3. CASE ~ParentExists(p)
  BY <1>1, <1>3, Reaches, FilesKept DEF Mkdirat, Store0!Mkdir, Store0!Returns, Returns
<1> QED
  BY <1>2, <1>3

LEMMA SrcRefines ==
    ASSUME IInv, IInv', Tidy, NEW p \in Paths, NEW v \in Bytes, NEW n \in Counts, Src(p, v, n)
    PROVE  Store0!Load(p, v, n)
<1> DEFINE bytes == [k \in 1 .. n |-> v]
<1>1. bytes \in Seq(Cells)
  BY ConstantFacts DEF Cells
<1>2. Store(p, bytes) /\ level = 0 /\ UNCHANGED <<level, files, out>>
  BY DEF Src
<1>3. OpenLog = <<>> /\ OpenLog' = OpenLog
  <2>1. OpenLog = <<>>
    BY <1>2, TheOpen
  <2> QED
    BY <1>2, <2>1, OpenKept
<1> HIDE DEF bytes
<1>4. FileLog' = Store0!WithNew(p, bytes)
  BY <1>1, <1>2, Stored
<1> QED
  BY <1>2, <1>3, <1>4 DEF Store0!Load, bytes

LEMMA Hex0Refines ==
    ASSUME IInv, IInv', Tidy, NEW p \in Paths, NEW q \in Paths, Hex0(p, q)
    PROVE  Store0!Assemble(p, q)
<1> DEFINE i     == FindFile(p)
           bytes == Assembled(Contents(i))
<1>1. Store(q, bytes) /\ level = 0 /\ i >= 0 /\ UNCHANGED <<level, files, out>>
  BY DEF Hex0
<1>2. i \in Created /\ Store0!Exists(p) /\ Store0!Newest(p) = i - 2
  BY <1>1, Found
<1>3. OpenLog = <<>> /\ OpenLog' = OpenLog
  <2>1. OpenLog = <<>>
    BY <1>1, TheOpen
  <2> QED
    BY <1>1, <2>1, OpenKept
<1> HIDE DEF i
<1>4. FileLog[i - 2].bytes = Contents(i)
  <2>1. FileLog[i - 2] = Record(i)
    BY <1>2, TheLog
  <2> QED
    BY <2>1 DEF Record
<1>5. bytes \in Seq(Cells)
  <2>1. \A n \in 0 .. DataCap : \A s \in [1 .. n -> Cells] : Assembled(s) \in Seq(Cells)
    BY FileSysAssumption DEF FileSysAssumption, Cells
  <2>2. i \in Entries
    BY <1>2, Counting
  <2> QED
    BY <2>1, <2>2, ContentsType
<1>6. FileLog' = Store0!WithNew(q, bytes)
  <2> HIDE DEF bytes
  <2> QED
    BY <1>1, <1>5, Stored
<1> QED
  BY <1>1, <1>2, <1>3, <1>4, <1>6 DEF Store0!Assemble

\* A write changes the file it is meant for, and no other.
LEMMA WriteRefines ==
    ASSUME IInv, IInv', ClosedIsEmpty, Tidy, NEW fd \in Fds, NEW v \in Bytes, NEW n \in Counts,
           Write(fd, v, n)
    PROVE  Store0!Write(fd, v, n)
<1> USE ConstantFacts
<1> DEFINE i   == File(fd)
           off == Handle(fd).off
           old == Store0!BytesOf(fd)
           new == Store0!Overwritten(old, off, v, n)
<1>1. level > 0 /\ OpenLog # <<>> /\ UNCHANGED level
  BY Running DEF Write
<1>2. /\ i # 0 /\ i \in Created /\ i \in Entries /\ Store0!Handles[fd].file = i - 2
      /\ Store0!Handles[fd].file # 0 /\ Store0!Handles[fd].off = off /\ i - 2 \in 1 .. nextFile - 3
  BY <1>1, Running, Counting DEF Write
<1>3. /\ off \in Nat /\ n \in Nat /\ addr[i] \in Nat /\ len[i] \in Nat /\ End(i) = addr[i] + len[i]
      /\ addr[i] + off + n <= DataCap
  BY <1>1, <1>2, HandleType, InOrder DEF IInv, Write
<1>4. /\ off <= len[i] /\ (off + n > len[i] => i = nextFile - 1)
      /\ len' = [len EXCEPT ![i] = Max({len[i], off + n})]
      /\ UNCHANGED <<name, addr, nextFile>> /\ Returns(n) /\ files' = Moved(fd, off + n)
      /\ \A a \in 0 .. DataCap - 1 :
           data'[a] = IF a \in addr[i] + off .. addr[i] + off + n - 1 THEN v ELSE data[a]
  BY DEF Write
<1>5. /\ old = [k \in 1 .. len[i] |-> data[addr[i] + k - 1]] /\ Len(old) = len[i]
      /\ FileLog[i - 2] = Record(i) /\ old = FileLog[i - 2].bytes
  <2>1. FileLog[i - 2] = Record(i)
    BY <1>2, TheLog
  <2>2. old = FileLog[i - 2].bytes
    BY <1>2 DEF Store0!BytesOf
  <2> QED
    BY <1>1, <2>1, <2>2, Behind
<1> HIDE DEF i, off, old
<1>6. ASSUME NEW j \in Created, j # i PROVE Record(j)' = Record(j)
  <2>1. j \in Entries /\ DOMAIN len = Entries
    BY Counting DEF IInv, TypeOK
  <2>2. len'[j] = len[j] /\ addr'[j] = addr[j] /\ name'[j] = name[j]
    BY <1>4, <1>6, <2>1
  <2>3. /\ addr[j] \in Nat /\ len[j] \in Nat /\ addr[j] + len[j] <= DataCap
        /\ addr[j] + len[j] <= addr[i] \/ addr[i] + off + n <= addr[j]
    <3>1. addr[j] \in Nat /\ len[j] \in Nat /\ End(j) = addr[j] + len[j] /\ End(j) <= DataCap
      BY <2>1, InOrder DEF IInv, FilesInside
    <3>2. CASE j < i
      BY <1>2, <3>1, <3>2, InOrder
    <3>3. CASE i < j
      <4>1. i # nextFile - 1 /\ End(i) <= addr[j]
        BY <1>2, <3>3, Counting, InOrder DEF Created
      <4>2. off + n <= len[i]
        BY <1>3, <1>4, <4>1
      <4> QED
        BY <1>3, <3>1, <4>1, <4>2
    <3> QED
      BY <1>2, <1>6, <3>2, <3>3, Counting
  <2>4. ASSUME NEW k \in 1 .. len[j] PROVE data'[addr[j] + k - 1] = data[addr[j] + k - 1]
    <3>1. /\ addr[j] + k - 1 \in 0 .. DataCap - 1
          /\ ~(addr[j] + k - 1 \in addr[i] + off .. addr[i] + off + n - 1)
      BY <1>3, <2>3
    <3> QED
      BY <1>4, <3>1
  <2>5. [k \in 1 .. len'[j] |-> data'[addr'[j] + k - 1]] = [k \in 1 .. len[j] |-> data[addr[j] + k - 1]]
    BY <2>2, <2>4
  <2> QED
    BY <2>2, <2>5 DEF Record, Contents
<1>7. ASSUME NEW j, j = i PROVE Record(j)' = [Record(i) EXCEPT !.bytes = new]
  <2> DEFINE most == Max({len[i], off + n})
  <2>1. most = (IF off + n > len[i] THEN off + n ELSE len[i]) /\ most \in Nat
    <3>1. off + n \in Int /\ len[i] \in Int
      BY <1>3
    <3>2. most = IF len[i] >= off + n THEN len[i] ELSE off + n
      BY <3>1, MaxOfTwo
    <3> HIDE DEF most
    <3> QED
      BY <1>3, <3>2
  <2>2. Store0!Max({Len(old), off + n}) = most
    BY <1>5 DEF Max, Store0!Max
  <2> HIDE DEF most
  <2>3. len'[i] = most
    <3>1. DOMAIN len = Entries
      BY DEF IInv, TypeOK
    <3> QED
      BY <1>2, <1>4, <3>1 DEF most
  <2>4. ASSUME NEW k \in 1 .. most
        PROVE  data'[addr[i] + k - 1] = IF k \in off + 1 .. off + n THEN v
                                        ELSE IF k <= Len(old) THEN old[k] ELSE Blank
    <3>1. addr[i] + k - 1 \in 0 .. DataCap - 1
      <4>1. addr[i] + most <= DataCap
        <5>1. End(i) <= DataCap
          BY <1>2 DEF IInv, FilesInside
        <5> QED
          BY <1>3, <2>1, <5>1
      <4> QED
        BY <1>3, <2>1, <4>1
    <3>2. k \in off + 1 .. off + n <=> addr[i] + k - 1 \in addr[i] + off .. addr[i] + off + n - 1
      BY <1>3, <2>1
    <3>3. ~(k \in off + 1 .. off + n) => k \in 1 .. len[i] /\ k <= len[i]
      BY <1>3, <1>4, <2>1
    <3> QED
      BY <1>4, <1>5, <3>1, <3>2, <3>3
  <2>5. new = [k \in 1 .. most |-> IF k \in off + 1 .. off + n THEN v
                                  ELSE IF k <= Len(old) THEN old[k] ELSE Blank]
    BY <2>2 DEF Store0!Overwritten
  <2>6. [k \in 1 .. most |-> data'[addr[i] + k - 1]] = new
    BY <2>4, <2>5
  <2> HIDE DEF new
  <2>7. Contents(j)' = new
    <3>1. addr'[j] = addr[i] /\ len'[j] = most
      BY <1>4, <1>7, <2>3
    <3> QED
      BY <2>6, <3>1 DEF Contents
  <2>8. name'[j] = name[i]
    BY <1>4, <1>7
  <2> QED
    BY <2>7, <2>8 DEF Record
<1> HIDE DEF new
<1>8. FileLog' = [FileLog EXCEPT ![i - 2].bytes = new]
  <2> DEFINE m == nextFile - 3
             f == FileLog
             g == FileLog'
             one == [Record(i) EXCEPT !.bytes = new]
  <2>1. g = [k \in 1 .. m |-> g[k]] /\ \A k \in 1 .. m : g[k] = Record(k + 2)'
    BY <1>4, TheLogNext
  <2>2. f = [k \in 1 .. m |-> f[k]] /\ \A k \in 1 .. m : f[k] = Record(k + 2) /\ k + 2 \in Created
    BY TheLog, Counting
  <2>3. ASSUME NEW k \in 1 .. m PROVE g[k] = IF k = i - 2 THEN one ELSE f[k]
    <3>1. k + 2 = i <=> k = i - 2
      BY <1>2, Counting
    <3>2. CASE k + 2 = i
      BY <1>7, <2>1, <3>1, <3>2
    <3>3. CASE k + 2 # i
      BY <1>6, <2>1, <2>2, <3>1, <3>3
    <3> QED
      BY <3>2, <3>3
  <2>4. one = [f[i - 2] EXCEPT !.bytes = new]
    BY <1>5
  <2> HIDE DEF one, f, g, m
  <2>5. g = [f EXCEPT ![i - 2] = one]
    BY <2>1, <2>2, <2>3
  <2> QED
    BY <2>4, <2>5 DEF f, g
<1>9. OpenLog' = Store0!Moved(fd, off + n)
  BY <1>1, <1>4, Move
<1> QED
  BY <1>1, <1>2, <1>4, <1>5, <1>8, <1>9 DEF Store0!Write, Returns, Store0!Returns, new

LEMMA NoneOpen ==
    /\ [fd \in Fds |-> Reference(Closed)] = Store0!Unopened
    /\ Closed = Store0!Closed
BY DEF Reference, Closed, Store0!Closed, Store0!Unopened

LEMMA EnterRefines == ASSUME IInv, IInv', Enter PROVE Store0!Enter
<1> USE ConstantFacts
<1>1. /\ level \in Nat /\ level' = level + 1 /\ level + 1 \in 1 .. MaxLevels
      /\ UNCHANGEDTables /\ UNCHANGED out
  BY DEF Enter, IInv, TypeOK
<1>2. files' = [files EXCEPT ![level + 1] = [fd \in Fds |-> Closed]] /\ DOMAIN files = 1 .. MaxLevels
  BY DEF Enter, Emptied, IInv, TypeOK
<1> DEFINE f == OpenLog
           g == OpenLog'
<1>3. f = [l \in 1 .. level |-> [fd \in Fds |-> Reference(files[l][fd])]]
  BY DEF OpenLog
<1>4. g = [l \in 1 .. level + 1 |-> [fd \in Fds |-> Reference(files'[l][fd])]]
  BY <1>1 DEF OpenLog, Reference
<1> HIDE DEF f, g
<1>5. \A l \in 1 .. level : l \in 1 .. level + 1 /\ files'[l] = files[l]
  BY <1>1, <1>2
<1>6. \A l \in 1 .. level : g[l] = f[l]
  BY <1>3, <1>4, <1>5
<1>7. g[level + 1] = Store0!Unopened
  <2>1. files'[level + 1] = [fd \in Fds |-> Closed] /\ level + 1 \in 1 .. level + 1
    BY <1>1, <1>2
  <2>2. g[level + 1] = [fd \in Fds |-> Reference(files'[level + 1][fd])]
    BY <1>4, <2>1
  <2>3. g[level + 1] = [fd \in Fds |-> Reference(Closed)]
    BY <2>1, <2>2
  <2> QED
    BY <2>3, NoneOpen
<1> DEFINE S == {g[l] : l \in 1 .. level + 1}
<1>8. g \in [1 .. level + 1 -> S]
  BY <1>4
<1>9. \A l \in 1 .. level : f[l] \in S
  BY <1>5, <1>6
<1> HIDE DEF S
<1>10. f \in [1 .. level -> S]
  BY <1>3, <1>9
<1>11. g = Append(f, g[level + 1])
  BY <1>1, <1>6, <1>8, <1>10, OneMore
<1> QED
  BY <1>1, <1>7, <1>11, FilesKept DEF Store0!Enter, f, g

LEMMA OverlayRefines == ASSUME IInv, Overlay PROVE Store0!Replace
<1> USE ConstantFacts
<1>1. level > 0 /\ UNCHANGED level /\ UNCHANGEDTables /\ UNCHANGED out
  BY DEF Overlay
<1>2. files' = [files EXCEPT ![level] = [fd \in Fds |-> Closed]] /\ DOMAIN files = 1 .. MaxLevels
  BY DEF Overlay, Emptied, IInv, TypeOK
<1>3. level \in 1 .. MaxLevels /\ level \in 1 .. level /\ OpenLog # <<>> /\ Len(OpenLog) = level
  BY <1>1, Running
<1>4. OpenLog = [l \in 1 .. level |-> [fd \in Fds |-> Reference(files[l][fd])]]
  BY DEF OpenLog
<1>5. OpenLog' = [l \in 1 .. level |-> [fd \in Fds |-> Reference(files'[l][fd])]]
  BY <1>1 DEF OpenLog, Reference
<1>6. \A l \in 1 .. level : files'[l] = IF l = level THEN [fd \in Fds |-> Closed] ELSE files[l]
  BY <1>2, <1>3
<1>7. ASSUME NEW l \in 1 .. level
      PROVE  [fd \in Fds |-> Reference(files'[l][fd])] =
               IF l = level THEN Store0!Unopened ELSE [fd \in Fds |-> Reference(files[l][fd])]
  <2>1. CASE l = level
    <3>1. [fd \in Fds |-> Reference(files'[l][fd])] = [fd \in Fds |-> Reference(Closed)]
      BY <1>6, <2>1
    <3> QED
      BY <2>1, <3>1, NoneOpen
  <2>2. CASE l # level
    BY <1>6, <2>2
  <2> QED
    BY <2>1, <2>2
<1>8. OpenLog' = [OpenLog EXCEPT ![level] = Store0!Unopened]
  BY <1>4, <1>5, <1>7
<1> QED
  BY <1>1, <1>3, <1>8, FilesKept DEF Store0!Replace

LEMMA LeaveRefines == ASSUME IInv, Leave PROVE Store0!Leave
<1>1. level > 0 /\ level' = level - 1 /\ UNCHANGEDTables /\ UNCHANGED <<files, out>>
  BY DEF Leave
<1>2. OpenLog # <<>> /\ Len(OpenLog) = level /\ level \in Nat /\ level - 1 \in Nat
  BY <1>1, Running, ConstantFacts DEF IInv, TypeOK
<1> DEFINE f == OpenLog
           g == OpenLog'
           n == level - 1
           S == {f[l] : l \in 1 .. level}
<1>3. f = [l \in 1 .. level |-> [fd \in Fds |-> Reference(files[l][fd])]]
  BY DEF OpenLog
<1>4. g = [l \in 1 .. n |-> [fd \in Fds |-> Reference(files[l][fd])]]
  BY <1>1 DEF OpenLog, Reference
<1>5. \A l \in 1 .. n : l \in 1 .. level /\ 0 + l = l
  BY <1>2
<1>6. g = [l \in 1 .. n |-> f[0 + l]]
  <2> HIDE DEF f, g, n
  <2> QED
    BY <1>3, <1>4, <1>5
<1>7. \A l \in 0 + 1 .. 0 + n : f[l] \in S
  BY <1>2
<1>8. n \in Nat /\ 0 \in Nat /\ 0 + 1 = 1 /\ 0 + n = n
  BY <1>2
<1> HIDE DEF f, g, n, S
<1>9. g = SubSeq(f, 0 + 1, 0 + n)
  BY <1>6, <1>7, <1>8, PartOf
<1>10. g = SubSeq(f, 1, n)
  BY <1>8, <1>9
<1> QED
  BY <1>1, <1>2, <1>10, FilesKept DEF Store0!Leave, f, g, n

-----------------------------------------------------------------------------

LEMMA InitRefines == Init => Store0!Init /\ ClosedIsEmpty
<1> SUFFICES ASSUME Init PROVE FileLog = <<>> /\ OpenLog = <<>> /\ out = [ret |-> 0, bytes |-> <<>>]
                               /\ len[0] = 0
  BY DEF Store0!Init, ClosedIsEmpty
<1>1. IInv
  BY InitOK
<1>2. nextFile = 3 /\ level = 0 /\ 0 \in Entries
  BY ConstantFacts DEF Init, Entries, FirstFile
<1>3. 3 - 3 = 0 /\ nextFile - 3 = 0 /\ 0 \in Nat
  BY <1>2
<1>4. FileLog = <<>>
  BY <1>1, <1>3, TheLog, AsSequence
<1>5. OpenLog = <<>>
  BY <1>1, <1>2, TheOpen
<1> QED
  BY <1>2, <1>4, <1>5 DEF Init

LEMMA StaysEmpty == IInv /\ ClosedIsEmpty /\ [Next]_vars => ClosedIsEmpty'
<1> SUFFICES ASSUME IInv, len[0] = 0, [Next]_vars PROVE len'[0] = 0
  BY DEF ClosedIsEmpty
<1>1. len \in [Entries -> 0 .. DataCap] /\ nextFile # 0
  BY Counting DEF IInv, TypeOK
<1>2. ASSUME NEW n, len' = [len EXCEPT ![nextFile] = n] PROVE len'[0] = 0
  BY <1>1, <1>2
<1>3. ASSUME NEW fd \in Fds, NEW v \in Bytes, NEW n \in Counts, Write(fd, v, n) PROVE len'[0] = 0
  BY <1>1, <1>3 DEF Write
<1> QED
  BY <1>2, <1>3 DEF Next, vars, UNCHANGEDTables, Openat, OpenatCreat, Mkdirat, Faccessat, Chdir, Close,
     Lseek, Read, Src, Hex0, Store, Enter, Overlay, Leave

LEMMA NextRefines ==
    ASSUME IInv, IInv', ClosedIsEmpty, Tidy, [Next]_vars
    PROVE  [Store0!Next]_(Store0!vars)
<1>1. CASE \E p \in Paths : Openat(p) \/ OpenatCreat(p) \/ Mkdirat(p) \/ Faccessat(p) \/ Chdir(p)
  BY <1>1, OpenatRefines, OpenatCreatRefines, MkdiratRefines, FaccessatRefines, ChdirRefines
     DEF Store0!Next
<1>2. CASE \E fd \in Fds : Close(fd) \/ \E off \in Seeks : Lseek(fd, off)
  BY <1>2, CloseRefines, LseekRefines DEF Store0!Next
<1>3. CASE \E fd \in Fds, n \in Counts : Read(fd, n)
  BY <1>3, ReadRefines DEF Store0!Next
<1>4. CASE \E fd \in Fds, v \in Bytes, n \in Counts : Write(fd, v, n)
  BY <1>4, WriteRefines DEF Store0!Next
<1>5. CASE \E p \in Paths, v \in Bytes, n \in Counts : Src(p, v, n)
  BY <1>5, SrcRefines DEF Store0!Next
<1>6. CASE \E p, q \in Paths : Hex0(p, q)
  BY <1>6, Hex0Refines DEF Store0!Next
<1>7. CASE Enter \/ Overlay \/ Leave
  BY <1>7, EnterRefines, OverlayRefines, LeaveRefines DEF Store0!Next
<1>8. CASE UNCHANGED vars
  BY <1>8, OpenKept, FilesKept DEF vars, Store0!vars, UNCHANGEDTables
<1> QED
  BY <1>1, <1>2, <1>3, <1>4, <1>5, <1>6, <1>7, <1>8 DEF Next

\* As long as programs are tidy the tables, the data area and the descriptors
\* implement a log of files with bytes of their own: a read returns what was
\* last written at that offset of that file, through whatever descriptor of
\* whatever program, a name is that of the newest file created under it, and
\* a parent finds its descriptors as it left them.
THEOREM ImplementsStore == ASSUME Tidy PROVE Spec => ImplementsFileStore
<1>1. Init => IInv /\ ClosedIsEmpty /\ Store0!Init
  BY InitOK, InitRefines
<1>2. IInv /\ ClosedIsEmpty /\ [Next]_vars => (IInv /\ ClosedIsEmpty)'
  BY StepOK, StaysEmpty
<1>3. IInv /\ IInv' /\ ClosedIsEmpty /\ [Next]_vars => [Store0!Next]_(Store0!vars)
  BY NextRefines
<1> QED
  BY <1>1, <1>2, <1>3, PTL DEF Spec, ImplementsFileStore, Store0!Spec
=============================================================================
