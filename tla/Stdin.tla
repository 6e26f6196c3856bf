-------------------------------- MODULE Stdin --------------------------------
(***************************************************************************)
(* Standard input of the stage 2 kernels: the disk, from the sector stage  *)
(* 1 hands over, through a buffer of one sector.  Two loops read it:       *)
(* read_stdin_byte for the shell and syscall_read for programs; both keep  *)
(* their place in stdin_sector and stdin_offset.  On the Raspberry Pi the  *)
(* shell first reads a part of the disk into memory (stdin_buf_ptr); the   *)
(* other boards and the RISC-V kernel have stdin_buf_ptr = 0 throughout.   *)
(*                                                                         *)
(* flush_disk writes to the same disk.                                     *)
(***************************************************************************)
EXTENDS Integers, FiniteSets

CONSTANTS
    SectorSize,       \* 512
    DiskSectors,      \* BOUND: sectors of the disk
    StartSector,      \* the sector behind the kernel's source
    Preloads,         \* sectors of the preload: 16128 on the Raspberry Pi, else 0
    ProgramsRead      \* the preloads with which programs read standard input, too

ASSUME StdinAssumption ==
    /\ {SectorSize, DiskSectors, StartSector} \cup Preloads \subseteq Nat
    /\ SectorSize > 0
    /\ StartSector > 0 /\ \A n \in Preloads : StartSector + n <= DiskSectors
    /\ ProgramsRead \subseteq Preloads

VARIABLES
    disk,             \* the sectors of the disk
    stdin_sector, stdin_offset,
    buffer,           \* the sector buffer (0xA0010000)
    stdin_buf_ptr,    \* 0, or where in memory the current preloaded sector is
    preload,          \* the sectors in memory
    got               \* the byte that was read last

stdin == <<stdin_sector, stdin_offset, buffer, stdin_buf_ptr>>
vars  == <<disk, stdin, preload, got>>

Positions == 0 .. SectorSize - 1

\* Every byte of the disk at boot is one of its own: its place.  What a flush
\* wrote, and what was in memory before anything was read, are other bytes.
AtBoot == [s \in 0 .. DiskSectors - 1 |-> [k \in Positions |-> <<s, k>>]]
Other == <<-1, 0>>
None == <<-2, 0>>
Bytes == {AtBoot[s][k] : s \in 0 .. DiskSectors - 1, k \in Positions} \cup {Other, None}
Flushed == [k \in Positions |-> Other]
Unread == [k \in Positions |-> None]

\* The preload lies in memory from here on, sector by sector; in front of it
\* is memory nobody wrote.
PreloadStart   == 2
PreloadSectors == Cardinality(DOMAIN preload) - 1
PreloadEnd     == PreloadStart + PreloadSectors

\* main, and on the Raspberry Pi the preload of internalshell: it starts one
\* sector in front of the preloaded ones, so that the first byte that is read
\* moves on to their first.
Init ==
    \E n \in Preloads :
        /\ disk = AtBoot
        /\ stdin_offset = SectorSize
        /\ buffer = Unread
        /\ got = None
        /\ stdin_sector = StartSector + n
        /\ stdin_buf_ptr = IF n = 0 THEN 0 ELSE PreloadStart - 1
        /\ preload = [p \in PreloadStart - 1 .. PreloadStart + n - 1 |->
                        IF p < PreloadStart THEN Unread ELSE AtBoot[StartSector + p - PreloadStart]]

-----------------------------------------------------------------------------
(* Getting at the next byte: each of these is "the next byte is c". *)

\* Mutant: the offset of a new sector starts at 0 after its first byte.
FirstTakenTwice == 0

\* The offset behind the first byte of a sector.
BehindFirst == 1

\* Mutant: a sector is counted by who asks for it and by who reads it.
CountedTwice == stdin_sector + 2

FollowingSector == stdin_sector + 1

\* rsb_have_data_sector: from the buffer.
FromBuffer(c) ==
    /\ stdin_offset < SectorSize
    /\ c = buffer[stdin_offset]
    /\ stdin_offset' = stdin_offset + 1
    /\ UNCHANGED <<stdin_sector, buffer>>

\* The buffer is used up: read the next sector into it.
FromDisk(c) ==
    /\ stdin_offset >= SectorSize
    /\ stdin_sector < DiskSectors                                    \* BOUND
    /\ buffer' = disk[stdin_sector]
    /\ c = buffer'[0]
    /\ stdin_sector' = FollowingSector
    /\ stdin_offset' = BehindFirst

\* rsb_have_data: from the preloaded sector.
FromPreload(c) ==
    /\ stdin_buf_ptr # 0
    /\ stdin_offset < SectorSize
    /\ c = preload[stdin_buf_ptr][stdin_offset]
    /\ stdin_offset' = stdin_offset + 1
    /\ UNCHANGED <<stdin_sector, buffer, stdin_buf_ptr>>

\* On to the next preloaded sector.
NextPreloaded(c) ==
    /\ stdin_buf_ptr # 0
    /\ stdin_offset >= SectorSize
    /\ stdin_buf_ptr + 1 < PreloadEnd
    /\ stdin_buf_ptr' = stdin_buf_ptr + 1
    /\ c = preload[stdin_buf_ptr'][0]
    /\ stdin_offset' = BehindFirst
    /\ UNCHANGED <<stdin_sector, buffer>>

\* rsb_preload_exhausted: from now on sector by sector.
PreloadExhausted(c) ==
    /\ stdin_buf_ptr # 0
    /\ stdin_offset >= SectorSize
    /\ stdin_buf_ptr + 1 >= PreloadEnd
    /\ stdin_buf_ptr' = 0
    /\ FromDisk(c)

-----------------------------------------------------------------------------
\* read_stdin_byte returns c.
StdinByte(c) ==
    \/ stdin_buf_ptr = 0 /\ UNCHANGED stdin_buf_ptr /\ (FromBuffer(c) \/ FromDisk(c))
    \/ FromPreload(c) \/ NextPreloaded(c) \/ PreloadExhausted(c)

\* One round of read_stdin_loop in syscall_read: it only knows the buffer.
SyscallByte(c) ==
    /\ UNCHANGED stdin_buf_ptr
    /\ FromBuffer(c) \/ FromDisk(c)

ShellReads ==
    \E c \in Bytes : StdinByte(c) /\ got' = c /\ UNCHANGED <<disk, preload>>

ProgramReads ==
    /\ PreloadSectors \in ProgramsRead
    /\ \E c \in Bytes : SyscallByte(c) /\ got' = c /\ UNCHANGED <<disk, preload>>

\* flush_disk: n whole sectors from the first one on.  Who writes /dev/hda
\* keeps it short of the sectors that are still to be read: the kernel does
\* not check it.
Flush(n) ==
    /\ n <= stdin_sector
    /\ disk' = [s \in DOMAIN disk |-> IF s < n THEN Flushed ELSE disk[s]]
    /\ UNCHANGED <<stdin, preload, got>>

Next == ShellReads \/ ProgramReads \/ \E n \in 0 .. DiskSectors : Flush(n)

Spec == Init /\ [][Next]_vars

-----------------------------------------------------------------------------
(* Properties *)

TypeOK ==
    /\ disk \in [0 .. DiskSectors - 1 -> [Positions -> Bytes]]
    /\ buffer \in [Positions -> Bytes]
    /\ stdin_sector \in StartSector .. DiskSectors
    /\ stdin_offset \in 0 .. SectorSize
    /\ stdin_buf_ptr \in {0} \cup PreloadStart - 1 .. PreloadEnd - 1
    /\ got \in Bytes

\* How many bytes were taken.
Taken ==
    IF stdin_buf_ptr # 0
    THEN (stdin_buf_ptr - PreloadStart) * SectorSize + stdin_offset
    ELSE (stdin_sector - 1 - StartSector) * SectorSize + stdin_offset

Image(p) == AtBoot[StartSector + p \div SectorSize][p % SectorSize]

Stream == INSTANCE ByteStream WITH pos <- Taken

\* The README: standard input is what "the kernel provides by reading the disk
\* image starting after the hex0 source".  The shell and its programs share
\* one stream: nobody loses a byte or reads one twice, across sectors, the end
\* of the preload and flushes.
ReadsTheImage == Stream!Spec
=============================================================================
