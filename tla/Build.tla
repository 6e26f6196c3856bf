-------------------------------- MODULE Build --------------------------------
(***************************************************************************)
(* From the assembly source to the running program: the toolchain writes a *)
(* .hex0 file, build-self.sh puts it on a disk with a script behind it,    *)
(* and stage 1 compiles it there and jumps.  On another machine the same   *)
(* happened before: that is where the behaviours begin.                    *)
(***************************************************************************)
EXTENDS Stage1, Meaning

(***************************************************************************)
(* The two compilers on one source, as when stage 2 builds itself: stage 1 *)
(* compiles the source on the disk and jumps; later a file with that text  *)
(* is compiled by the hex0 command.  A file may go on behind a zero byte:  *)
(* only for stage 1 is the zero an end.                                    *)
(***************************************************************************)
VARIABLES
    file,             \* the source of the command
    place, phase, fileState, fileHigh,
    built             \* what the command has compiled

command == <<file, place, phase, fileState, fileHigh, built>>

\* The text on the disk, or all there is up to the end of the script.
FilesOf(i) == {i.source, i.source \o <<NUL>> \o i.script}

Command == INSTANCE Hex0Command WITH
    text <- file, at <- place, mode <- phase, state <- fileState, high <- fileHigh, output <- built

BuildInit ==
    /\ Init
    /\ Command!Init

Boot == Next /\ UNCHANGED command

\* Stage 2 is there, and the script has got as far as its hex0 command.
StartCommand ==
    /\ mode = "jumped"
    /\ \E f \in FilesOf(image) : Command!Start(f)
    /\ UNCHANGED vars

Compile == Command!Next /\ UNCHANGED vars

BuildNext == Boot \/ StartCommand \/ Compile

\* One processor and a disk that answers: stage 1 goes on.
BuildSpec == BuildInit /\ [][BuildNext]_<<vars, command>> /\ WF_vars(Boot)

-----------------------------------------------------------------------------
(* Properties *)

\* Both compilers keep their types.
BuildTypeOK == TypeOK /\ Command!TypeOK

\* The command makes of a file what its text stands for, zeros or not: for a
\* source without any, what stage 1 has made of it on the disk.
CompilesTheFile == Command!CompilesTheFile

-----------------------------------------------------------------------------
CONSTANTS
    OldDisk,          \* BOUND: what is on the disk while something is made
    MaxBooted         \* BOUND: how many lines a source has that is booted

(* The text of a .hex0 file.  Of a comment only a letter is left, which is *)
(* a digit as well, so that it matters who takes it for a comment.         *)

HexDigit(n) == IF n < 10 THEN 48 + n ELSE 87 + n

Rendered(bytes) ==
    [k \in 1 .. 3 * Len(bytes) |->
        LET byte == bytes[(k + 2) \div 3]
        IN CASE k % 3 = 1 -> HexDigit(Unsigned(byte, 4, 4))
             [] k % 3 = 2 -> HexDigit(Unsigned(byte, 0, 4))
             [] OTHER     -> 32]

\* Mutant: a label line is copied as it is.
LabelCopied == <<58, 97>>

\* '#' + stripped
LabelCommented == <<35, 58, 97>>

LineText(line) ==
    (CASE line.line.kind = "label"   -> LabelCommented
       [] line.line.kind = "comment" -> <<35, 97>>
       [] line.line.kind = "insn"    -> Rendered(line.bytes) \o <<32, 35, 32, 97>>
       [] OTHER -> Rendered(line.bytes)) \o <<NL>>

TextOf(lines) == FlattenSeq([i \in DOMAIN lines |-> LineText(lines[i])])

-----------------------------------------------------------------------------
\* BOUND: either the disk varies and there is nothing to make, or something is
\* made and the disk is an old one.
NothingToMake == {s \in Sources : s.lines = <<>>}

WholeInit == BuildInit /\ Written(IF image = OldDisk THEN Sources ELSE NothingToMake)

\* What was made is put on a disk, and the machine is switched on.  A source
\* that fills its last sector has no zero byte behind it: see HandsOverTheScript.
Flash ==
    LET text == TextOf(hex0) IN
    /\ made = "ok" /\ Len(assembly) <= MaxBooted
    /\ Len(text) % SectorSize # 0 /\ image.source # text
    /\ PowerOn(Image(text, image.script))
    /\ phase' = "waiting"
    /\ UNCHANGED <<file, place, fileState, fileHigh, built, tools>>

\* The machine works, or whoever sits in front of it.  They share nothing but
\* the disk, so it loses nothing that the one waits for the other.
Machine == Boot \/ (image # OldDisk /\ StartCommand) \/ Compile

Desk ==
    /\ ToolsNext
    /\ mode = "jumped" /\ phase \in {"waiting", "done"}
    /\ image = OldDisk \/ assembly # <<>>
    /\ UNCHANGED <<vars, command>>

WholeNext == (Machine /\ UNCHANGED tools) \/ Desk \/ Flash

WholeSpec == WholeInit /\ [][WholeNext]_<<vars, command, tools>> /\ WF_vars(Boot /\ UNCHANGED tools)

-----------------------------------------------------------------------------
(* Properties *)

\* What is in memory when stage 1 jumps is the linker's output, byte for byte:
\* hex2tohex0.py's counting, its comments and stage 1's scanner cancel out.
BootsWhatWasLinked ==
    Made /\ mode = "jumped" /\ image.source = TextOf(hex0) => output = [i \in DOMAIN bin |-> Number(bin[i])]
=============================================================================
