------------------------------ MODULE StdinProofs ------------------------------
(***************************************************************************)
(* Theorems about standard input, for every size of a sector, of the disk  *)
(* and of the preload: the variables keep their types, and as long as      *)
(* programs do not read where a preload is in memory, shell and programs   *)
(* together get the bytes of the disk at boot, one after the other.  For   *)
(* that the places that both loops share have to mean the same to both:    *)
(* which sector the buffer holds, and which of them a flush cannot have    *)
(* written yet.                                                            *)
(***************************************************************************)
EXTENDS Stdin, Sequences, FiniteSetTheorems, WellFoundedInduction, TLAPS

USE StdinAssumption

\* What lies in memory: the sectors behind the kernel's source.
PreloadOK ==
    /\ PreloadSectors \in Preloads
    /\ DOMAIN preload = PreloadStart - 1 .. PreloadEnd - 1
    /\ preload = [p \in DOMAIN preload |-> IF p < PreloadStart THEN Unread ELSE AtBoot[StartSector + p - PreloadStart]]

TypeInv == TypeOK /\ PreloadOK /\ stdin_offset \in 1 .. SectorSize

\* While there is a preload to read from, the disk has not been touched; from
\* then on the buffer is the sector in front of the next one.
Placed ==
    /\ \A s \in stdin_sector .. DiskSectors - 1 : disk[s] = AtBoot[s]
    /\ stdin_buf_ptr # 0 =>
         /\ PreloadSectors > 0 /\ stdin_sector = StartSector + PreloadSectors
         /\ stdin_buf_ptr < PreloadStart => stdin_offset = SectorSize
    /\ stdin_buf_ptr = 0 =>
         IF stdin_sector = StartSector THEN stdin_offset = SectorSize
         ELSE buffer = AtBoot[stdin_sector - 1]

-----------------------------------------------------------------------------
LEMMA Numbers ==
    /\ SectorSize \in Nat \ {0} /\ DiskSectors \in Nat /\ StartSector \in Nat \ {0}
    /\ \A n \in Preloads : n \in Nat /\ StartSector + n <= DiskSectors
    /\ PreloadStart = 2
  BY DEF PreloadStart

LEMMA BootBytes ==
    /\ \A s \in 0 .. DiskSectors - 1 : AtBoot[s] \in [Positions -> Bytes]
    /\ Unread \in [Positions -> Bytes] /\ Flushed \in [Positions -> Bytes]
    /\ None \in Bytes
  BY DEF AtBoot, Unread, Flushed, Bytes

LEMMA InitTypeInv == Init => TypeInv
  <1> SUFFICES ASSUME NEW n \in Preloads,
                      disk = AtBoot, stdin_offset = SectorSize, buffer = Unread, got = None,
                      stdin_sector = StartSector + n,
                      stdin_buf_ptr = IF n = 0 THEN 0 ELSE PreloadStart - 1,
                      preload = [p \in PreloadStart - 1 .. PreloadStart + n - 1 |->
                        IF p < PreloadStart THEN Unread ELSE AtBoot[StartSector + p - PreloadStart]]
               PROVE  TypeInv
    BY DEF Init
  <1>1. n \in Nat /\ StartSector + n <= DiskSectors
    BY Numbers
  <1>2. DOMAIN preload = 1 .. n + 1
    BY <1>1, Numbers
  <1>3. PreloadSectors = n
    <2>1. Cardinality(1 .. n + 1) = n + 1
      BY <1>1, FS_Interval
    <2> QED
      BY <1>1, <1>2, <2>1 DEF PreloadSectors
  <1>4. PreloadOK
    BY <1>1, <1>2, <1>3, Numbers DEF PreloadOK, PreloadEnd
  <1>5. TypeOK
    <2>1. AtBoot \in [0 .. DiskSectors - 1 -> [Positions -> Bytes]]
      BY BootBytes DEF AtBoot
    <2> QED
      BY <1>1, <1>3, <2>1, Numbers, BootBytes DEF TypeOK, PreloadEnd
  <1> QED
    BY <1>4, <1>5, Numbers DEF TypeInv

-----------------------------------------------------------------------------
(* One byte more *)

\* A byte of the buffer, or the first of the next sector.
Buffered(c) == FromBuffer(c) \/ FromDisk(c)

\* A byte of the preload.
Preloaded(c) == FromPreload(c) \/ NextPreloaded(c)

LEMMA Readings ==
    ASSUME Next
    PROVE  \/ \E c \in Bytes :
                /\ UNCHANGED <<disk, preload>> /\ got' = c
                /\ \/ /\ Buffered(c) /\ UNCHANGED stdin_buf_ptr
                      /\ (stdin_buf_ptr = 0 \/ PreloadSectors \in ProgramsRead)
                   \/ Preloaded(c)
                   \/ PreloadExhausted(c)
           \/ \E n \in 0 .. DiskSectors : Flush(n)
  <1>1. CASE ShellReads
    BY <1>1 DEF ShellReads, StdinByte, Buffered, Preloaded
  <1>2. CASE ProgramReads
    BY <1>2 DEF ProgramReads, SyscallByte, Buffered
  <1> QED
    BY <1>1, <1>2 DEF Next

LEMMA BufferedTypes ==
    ASSUME TypeInv, NEW c \in Bytes, Buffered(c)
    PROVE  /\ stdin_offset' \in 1 .. SectorSize
           /\ stdin_sector' \in StartSector .. DiskSectors
           /\ buffer' \in [Positions -> Bytes]
  <1> USE Numbers DEF TypeInv, TypeOK
  <1>1. CASE FromBuffer(c)
    BY <1>1 DEF FromBuffer
  <1>2. CASE FromDisk(c)
    BY <1>2 DEF FromDisk, BehindFirst, FollowingSector
  <1> QED
    BY <1>1, <1>2 DEF Buffered

LEMMA PreloadKept ==
    ASSUME UNCHANGED preload
    PROVE  /\ PreloadSectors' = PreloadSectors /\ PreloadEnd' = PreloadEnd
           /\ PreloadOK => PreloadOK'
  BY DEF PreloadSectors, PreloadEnd, PreloadOK, PreloadStart

LEMMA NextTypeInv == TypeInv /\ [Next]_vars => TypeInv'
  <1> SUFFICES ASSUME TypeInv, [Next]_vars PROVE TypeInv'
    OBVIOUS
  <1> USE Numbers
  <1>1. CASE UNCHANGED vars
    BY <1>1, PreloadKept DEF vars, stdin, TypeInv, TypeOK
  <1>2. ASSUME NEW c \in Bytes, UNCHANGED <<disk, preload>>, got' = c, Buffered(c),
               UNCHANGED stdin_buf_ptr \/ stdin_buf_ptr' = 0
        PROVE  TypeInv'
    BY <1>2, PreloadKept, BufferedTypes DEF TypeInv, TypeOK
  <1>3. ASSUME NEW c \in Bytes, UNCHANGED <<disk, preload>>, got' = c, Preloaded(c)
        PROVE  TypeInv'
    <2>1. PreloadSectors \in Nat
      BY DEF TypeInv, PreloadOK
    <2>2. stdin_offset' \in 1 .. SectorSize /\ UNCHANGED <<stdin_sector, buffer>>
      BY <1>3 DEF Preloaded, FromPreload, NextPreloaded, BehindFirst, TypeInv, TypeOK
    <2>3. stdin_buf_ptr' \in PreloadStart - 1 .. PreloadEnd - 1
      BY <1>3, <2>1 DEF Preloaded, FromPreload, NextPreloaded, TypeInv, TypeOK, PreloadEnd
    <2> QED
      BY <1>3, <2>2, <2>3, PreloadKept DEF TypeInv, TypeOK
  <1>4. ASSUME NEW n \in 0 .. DiskSectors, Flush(n)
        PROVE  TypeInv'
    <2>1. disk' \in [0 .. DiskSectors - 1 -> [Positions -> Bytes]]
      BY <1>4, BootBytes DEF Flush, TypeInv, TypeOK
    <2> QED
      BY <1>4, <2>1, PreloadKept DEF Flush, stdin, TypeInv, TypeOK
  <1> QED
    BY <1>1, <1>2, <1>3, <1>4, Readings DEF Buffered, PreloadExhausted

\* Sector, offset, buffer and preload keep their types, whoever reads where and
\* whatever is flushed.
THEOREM TypeCorrect == Spec => []TypeOK
  <1>1. TypeInv => TypeOK
    BY DEF TypeInv
  <1> QED
    BY <1>1, InitTypeInv, NextTypeInv, PTL DEF Spec

-----------------------------------------------------------------------------
(* The stream *)

IInv == TypeInv /\ Placed

\* Byte r of the q-th sector is where the stream looks for it.
LEMMA PlaceInStream ==
    ASSUME NEW q \in Nat, NEW r \in Positions
    PROVE  /\ q * SectorSize + r \in Nat
           /\ Image(q * SectorSize + r) = AtBoot[StartSector + q][r]
  <1>1. /\ q * SectorSize + r \in Nat
        /\ (q * SectorSize + r) \div SectorSize = q
        /\ (q * SectorSize + r) % SectorSize = r
    BY Numbers DEF Positions
  <1> QED
    BY <1>1 DEF Image

LEMMA SectorEnds ==
    ASSUME NEW q \in Int
    PROVE  q * SectorSize + SectorSize = (q + 1) * SectorSize
  BY Numbers

\* The next step of the stream.
NextOfTheImage == Taken' = Taken + 1 /\ got' = Image(Taken)

\* One byte further in the q-th sector is one byte further in the stream.
LEMMA OneFurther ==
    ASSUME NEW q \in Nat, NEW r \in Positions,
           Taken = q * SectorSize + r, Taken' = q * SectorSize + (r + 1),
           got' = AtBoot[StartSector + q][r]
    PROVE  NextOfTheImage
  <1>1. q * SectorSize \in Nat
    BY Numbers
  <1> QED
    BY <1>1, PlaceInStream, Numbers DEF NextOfTheImage, Positions

LEMMA FromBufferStep ==
    ASSUME IInv, NEW c \in Bytes, got' = c, UNCHANGED <<disk, preload>>,
           stdin_buf_ptr = 0, UNCHANGED stdin_buf_ptr, FromBuffer(c)
    PROVE  Placed' /\ NextOfTheImage
  <1> USE Numbers DEF IInv, TypeInv, TypeOK, Placed, FromBuffer
  <1>1. stdin_sector # StartSector
    OBVIOUS
  <1>2. Placed'
    BY <1>1
  <1> DEFINE q == stdin_sector - 1 - StartSector
  <1>3. q \in Nat /\ StartSector + q = stdin_sector - 1 /\ stdin_offset \in Positions
    BY <1>1 DEF Positions
  <1>4. /\ Taken = q * SectorSize + stdin_offset
        /\ Taken' = q * SectorSize + (stdin_offset + 1)
    BY DEF Taken
  <1>5. got' = AtBoot[StartSector + q][stdin_offset]
    BY <1>1, <1>3
  <1> QED
    BY <1>2, <1>3, <1>4, <1>5, OneFurther

\* q sectors of the stream lie in front of the one that is read now.
LEMMA FromDiskStep ==
    ASSUME IInv, NEW c \in Bytes, got' = c, UNCHANGED <<disk, preload>>,
           stdin_buf_ptr' = 0, FromDisk(c),
           Taken = (stdin_sector - StartSector) * SectorSize
    PROVE  Placed' /\ NextOfTheImage
  <1> USE Numbers DEF IInv, TypeInv, TypeOK, Placed, FromDisk, BehindFirst, FollowingSector
  <1> DEFINE q == stdin_sector - StartSector
  <1>1. buffer' = AtBoot[stdin_sector]
    OBVIOUS
  <1>2. Placed'
    BY <1>1
  <1>3. q \in Nat /\ StartSector + q = stdin_sector /\ 0 \in Positions
    BY DEF Positions
  <1>4. q * SectorSize \in Nat
    BY <1>3
  <1>5. Taken' = q * SectorSize + (0 + 1) /\ Taken = q * SectorSize + 0
    BY <1>3, <1>4 DEF Taken
  <1>6. got' = AtBoot[StartSector + q][0]
    BY <1>1, <1>3
  <1> QED
    BY <1>2, <1>3, <1>5, <1>6, OneFurther

LEMMA PreloadedStep ==
    ASSUME IInv, NEW c \in Bytes, got' = c, UNCHANGED <<disk, preload>>, Preloaded(c)
    PROVE  Placed' /\ NextOfTheImage
  <1> USE Numbers DEF IInv, TypeInv, TypeOK, PreloadOK, Placed, PreloadEnd
  <1>1. CASE FromPreload(c)
    <2> USE <1>1 DEF FromPreload
    <2> DEFINE q == stdin_buf_ptr - PreloadStart
    <2>1. stdin_buf_ptr >= PreloadStart /\ stdin_buf_ptr \in DOMAIN preload
      OBVIOUS
    <2>2. q \in Nat /\ StartSector + q = StartSector + stdin_buf_ptr - PreloadStart /\ stdin_offset \in Positions
      BY <2>1 DEF Positions
    <2>3. Taken = q * SectorSize + stdin_offset /\ Taken' = q * SectorSize + (stdin_offset + 1)
      BY DEF Taken
    <2>4. preload[stdin_buf_ptr] = AtBoot[StartSector + stdin_buf_ptr - PreloadStart]
      BY <2>1
    <2>5. got' = AtBoot[StartSector + q][stdin_offset]
      BY <2>2, <2>4
    <2>6. Placed'
      BY <2>1, PreloadKept
    <2> QED
      BY <2>2, <2>3, <2>5, <2>6, OneFurther
  <1>2. CASE NextPreloaded(c)
    <2> USE <1>2 DEF NextPreloaded, BehindFirst
    <2> DEFINE q == stdin_buf_ptr + 1 - PreloadStart
    <2>1. stdin_buf_ptr' >= PreloadStart /\ stdin_buf_ptr' \in DOMAIN preload
      OBVIOUS
    <2>2. /\ q \in Nat /\ 0 \in Positions /\ stdin_offset = SectorSize
          /\ stdin_buf_ptr \in Nat /\ stdin_buf_ptr' = stdin_buf_ptr + 1
      BY <2>1 DEF Positions
    <2>3. Taken = q * SectorSize + 0
      <3> DEFINE z == stdin_buf_ptr - PreloadStart
      <3>1. z \in Int /\ z + 1 = q
        BY <2>2
      <3>2. z * SectorSize + SectorSize = (z + 1) * SectorSize
        BY <3>1, SectorEnds
      <3>3. Taken = z * SectorSize + stdin_offset
        BY DEF Taken
      <3> HIDE DEF z, q
      <3>4. q * SectorSize \in Nat
        BY <2>2
      <3> QED
        BY <2>2, <3>1, <3>2, <3>3, <3>4
    <2>4. Taken' = q * SectorSize + (0 + 1)
      <3>1. stdin_buf_ptr' # 0 /\ stdin_buf_ptr' - PreloadStart = q /\ stdin_offset' = 1
        BY <2>1, <2>2
      <3> QED
        BY <3>1 DEF Taken
    <2>5. preload[stdin_buf_ptr'] = AtBoot[StartSector + stdin_buf_ptr' - PreloadStart]
      BY <2>1
    <2>6. got' = AtBoot[StartSector + q][0]
      BY <2>2, <2>5
    <2>7. Placed'
      BY <2>1, PreloadKept
    <2> QED
      BY <2>2, <2>3, <2>4, <2>6, <2>7, OneFurther
  <1> QED
    BY <1>1, <1>2 DEF Preloaded

LEMMA ExhaustedStep ==
    ASSUME IInv, NEW c \in Bytes, got' = c, UNCHANGED <<disk, preload>>, PreloadExhausted(c)
    PROVE  Placed' /\ NextOfTheImage
  <1> USE Numbers DEF IInv, TypeInv, TypeOK, PreloadOK, Placed, PreloadEnd, PreloadExhausted
  <1>1. /\ stdin_buf_ptr = PreloadStart + PreloadSectors - 1
        /\ stdin_offset = SectorSize
        /\ stdin_sector - StartSector = PreloadSectors
    OBVIOUS
  <1>2. (PreloadSectors - 1) * SectorSize + SectorSize = PreloadSectors * SectorSize
    OBVIOUS
  <1>3. Taken = (stdin_sector - StartSector) * SectorSize
    BY <1>1, <1>2 DEF Taken
  <1> QED
    BY <1>3, FromDiskStep

LEMMA BufferedStep ==
    ASSUME IInv, NEW c \in Bytes, got' = c, UNCHANGED <<disk, preload>>,
           stdin_buf_ptr = 0, UNCHANGED stdin_buf_ptr, Buffered(c)
    PROVE  Placed' /\ NextOfTheImage
  <1>1. CASE FromBuffer(c)
    BY <1>1, FromBufferStep
  <1>2. CASE FromDisk(c)
    <2> USE <1>2, Numbers DEF FromDisk, IInv, TypeInv, TypeOK
    <2>1. stdin_offset = SectorSize
      OBVIOUS
    <2>2. (stdin_sector - 1 - StartSector) * SectorSize + SectorSize = (stdin_sector - StartSector) * SectorSize
      OBVIOUS
    <2>3. Taken = (stdin_sector - StartSector) * SectorSize
      BY <2>1, <2>2 DEF Taken
    <2> QED
      BY <2>3, FromDiskStep
  <1> QED
    BY <1>1, <1>2 DEF Buffered

\* A flush stays in front of what is still to be read.
LEMMA FlushStep ==
    ASSUME IInv, NEW n \in 0 .. DiskSectors, Flush(n)
    PROVE  Placed' /\ UNCHANGED <<Taken, got>>
  <1> USE Numbers DEF IInv, TypeInv, TypeOK, Flush, stdin
  <1>1. Placed'
    BY PreloadKept DEF Placed
  <1> QED
    BY <1>1 DEF Taken

LEMMA InitPlaced == Init => IInv /\ Taken = 0 /\ got = None
  <1> SUFFICES ASSUME Init PROVE IInv /\ Taken = 0 /\ got = None
    OBVIOUS
  <1> USE Numbers
  <1>1. TypeInv
    BY InitTypeInv
  <1>2. PICK n \in Preloads :
             /\ disk = AtBoot /\ stdin_offset = SectorSize /\ got = None
             /\ stdin_sector = StartSector + n
             /\ stdin_buf_ptr = IF n = 0 THEN 0 ELSE PreloadStart - 1
             /\ DOMAIN preload = PreloadStart - 1 .. PreloadStart + n - 1
    BY DEF Init
  <1>3. PreloadSectors = n
    <2>1. Cardinality(1 .. n + 1) = n + 1
      BY FS_Interval
    <2>2. DOMAIN preload = 1 .. n + 1
      BY <1>2
    <2> QED
      BY <2>1, <2>2 DEF PreloadSectors
  <1>4. Placed
    BY <1>2, <1>3 DEF Placed
  <1>5. Taken = 0
    <2>1. CASE n = 0
      <3>1. Taken = (StartSector - 1 - StartSector) * SectorSize + SectorSize
        BY <1>2, <2>1 DEF Taken
      <3> QED
        BY <3>1
    <2>2. CASE n # 0
      <3>1. Taken = (PreloadStart - 1 - PreloadStart) * SectorSize + SectorSize
        BY <1>2, <2>2 DEF Taken
      <3> QED
        BY <3>1
    <2> QED
      BY <2>1, <2>2
  <1> QED
    BY <1>1, <1>2, <1>4, <1>5 DEF IInv

LEMMA NextOfStream ==
    ASSUME ProgramsRead \subseteq {0}
    PROVE  IInv /\ [Next]_vars => IInv' /\ (NextOfTheImage \/ UNCHANGED <<Taken, got>>)
  <1> SUFFICES ASSUME IInv, [Next]_vars
               PROVE  Placed' /\ (NextOfTheImage \/ UNCHANGED <<Taken, got>>)
    BY NextTypeInv DEF IInv
  <1>1. CASE UNCHANGED vars
    <2>1. Placed'
      BY <1>1, PreloadKept DEF vars, stdin, IInv, Placed
    <2> QED
      BY <1>1, <2>1 DEF vars, stdin, Taken
  <1>2. CASE Next
    <2>1. PreloadSectors \in ProgramsRead => stdin_buf_ptr = 0
      BY Numbers DEF IInv, TypeInv, TypeOK, Placed, PreloadEnd
    <2> QED
      BY <1>2, <2>1, Readings, BufferedStep, PreloadedStep, ExhaustedStep, FlushStep
  <1> QED
    BY <1>1, <1>2

\* Where no program reads standard input while a preload is in memory, the
\* shell and the programs share one stream: the disk at boot, from the sector
\* behind the kernel's source, no byte lost or read twice, whoever reads and
\* whatever is flushed meanwhile.
THEOREM StreamOfTheImage ==
    ASSUME ProgramsRead \subseteq {0}
    PROVE  Spec => ReadsTheImage
  <1>1. Init => IInv /\ Stream!Init
    BY InitPlaced DEF Stream!Init
  <1>2. IInv /\ [Next]_vars => IInv'
    BY NextOfStream
  <1>3. IInv /\ [Next]_vars => [Stream!Next]_<<Taken, got>>
    BY NextOfStream DEF NextOfTheImage, Stream!Next
  <1> QED
    BY <1>1, <1>2, <1>3, PTL DEF Spec, ReadsTheImage, Stream!Spec
===============================================================================
