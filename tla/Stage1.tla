------------------------------- MODULE Stage1 -------------------------------
(***************************************************************************)
(* Stage 1: the hex0 compiler that boots.  It compiles the source on the   *)
(* disk from sector 0 up to the first zero byte and jumps to what came     *)
(* out, with the number of the next sector: there stage 2 finds its        *)
(* standard input.  The four boards share this loop; they differ in how a  *)
(* sector is read.                                                         *)
(***************************************************************************)
EXTENDS Hex0

CONSTANTS
    SectorSize,       \* 512
    Images            \* [source, script, disk]: what was put where on the disk

ASSUME Stage1Assumption == SectorSize \in Nat \ {0}

(* build-self.sh: the source from sector 0 on, the script behind the last  *)
(* sector it reaches into, and zeros.                                      *)

Sectors(text) ==
    [s \in 1 .. (Len(text) + SectorSize - 1) \div SectorSize |->
        [k \in 1 .. SectorSize |->
            LET p == (s - 1) * SectorSize + k IN IF p <= Len(text) THEN text[p] ELSE NUL]]

Zeros == [i \in 1 .. SectorSize |-> NUL]

Image(text, script) ==
    [source |-> text, script |-> script, disk |-> Sectors(text) \o <<script, Zeros, Zeros>>]

\* An image of a text, with a zero byte behind it on its last sector.
Built(i) ==
    /\ i.source \in Seq(1 .. 255) /\ i.script \in [1 .. SectorSize -> 0 .. 255]
    /\ i = Image(i.source, i.script)
    /\ Len(i.source) % SectorSize # 0

AllBuilt(images) == \A i \in images : Built(i)

VARIABLES
    image,            \* the disk, and what is on it
    mode,             \* "code", "comment", or "jumped" to stage 2
    sector, offset,   \* the next sector, and the next byte of the buffer (s1, s2)
    buffer,           \* the sector that was read last
    state, high,      \* whether a first digit was read, and which (s0, s6)
    output            \* the bytes at the output address

source == <<sector, offset, buffer>>
vars == <<image, mode, source, state, high, output>>

Init ==
    /\ image \in Images
    /\ mode = "code"
    /\ sector = 0
    /\ offset = SectorSize
    /\ buffer = <<>>
    /\ state = 0 /\ high = 0
    /\ output = <<>>

\* The machine is switched on again, with disk i.
PowerOn(i) ==
    /\ image' = i
    /\ mode' = "code"
    /\ sector' = 0
    /\ offset' = SectorSize
    /\ buffer' = <<>>
    /\ state' = 0 /\ high' = 0
    /\ output' = <<>>

-----------------------------------------------------------------------------
\* Mutant: the last byte of a sector is lost.
AllButOneUsed == offset >= SectorSize - 1

BufferUsed == offset >= SectorSize

\* next_byte returns this and moves on.
Byte == IF BufferUsed THEN image.disk[sector + 1][1] ELSE buffer[offset + 1]

NextByte ==
    /\ BufferUsed => sector < Len(image.disk)                         \* BOUND
    /\ IF BufferUsed
       THEN buffer' = image.disk[sector + 1] /\ sector' = sector + 1 /\ offset' = 1
       ELSE offset' = offset + 1 /\ UNCHANGED <<sector, buffer>>

\* Mutant: the state survives the second digit.
Kept == 1

Reset == 0

\* got_nibble and second_nibble
GotNibble(n) ==
    IF state = 0
    THEN high' = 16 * n /\ state' = 1 /\ UNCHANGED output
    ELSE output' = Append(output, high + n) /\ state' = Reset /\ UNCHANGED high

Hex0Loop ==
    /\ mode = "code" /\ NextByte
    /\ \/ Byte = NUL /\ mode' = "jumped" /\ UNCHANGED <<state, high, output>>
       \/ Byte \in CommentSigns /\ mode' = "comment" /\ UNCHANGED <<state, high, output>>
       \/ /\ Byte \notin {NUL} \cup CommentSigns /\ Stage1Nibble(Byte) = NoDigit
          /\ UNCHANGED <<mode, state, high, output>>
       \/ /\ Byte \notin {NUL} \cup CommentSigns /\ Stage1Nibble(Byte) # NoDigit
          /\ GotNibble(Stage1Nibble(Byte))
          /\ UNCHANGED mode
    /\ UNCHANGED image

\* Mutant: in a comment only the end of the line counts.
OnlyNewLine == IF Byte = NL THEN "code" ELSE "comment"

AfterComment == CASE Byte = NUL -> "jumped" [] Byte = NL -> "code" [] OTHER -> "comment"

SkipComment ==
    /\ mode = "comment" /\ NextByte
    /\ mode' = AfterComment
    /\ UNCHANGED <<image, state, high, output>>

Next == Hex0Loop \/ SkipComment

Spec == Init /\ [][Next]_vars

\* One processor and a disk that answers.
FairSpec == Spec /\ WF_vars(Next)

-----------------------------------------------------------------------------
(* Properties *)

TypeOK ==
    /\ mode \in {"code", "comment", "jumped"}
    /\ sector \in 0 .. Len(image.disk) /\ offset \in 1 .. SectorSize
    /\ state \in {0, 1} /\ high \in {16 * n : n \in 0 .. 15}
    /\ output \in Seq(0 .. 255)

\* Nothing but the program the source stands for comes out, ...
CompilesTheSource ==
    /\ IsPrefix(output, Assembled(image.source))
    /\ mode = "jumped" => output = Assembled(image.source)

\* ... and stage 2 is told where its script begins: the sector stage 1 counts
\* while compiling is the one whoever built the image put the script at.
HandsOverTheScript == mode = "jumped" => image.disk[sector + 1] = image.script

\* The jump comes, wherever the source ends, each time the machine is on.
Jumps == []<>(mode = "jumped")
=============================================================================
