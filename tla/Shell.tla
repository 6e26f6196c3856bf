-------------------------------- MODULE Shell --------------------------------
(***************************************************************************)
(* internalshell: the builder shell of the stage 2 kernels.  It parses its *)
(* script byte by byte off standard input; the data of src and the input   *)
(* of the programs it starts lie between the commands.                     *)
(*                                                                         *)
(* Bytes are ASCII codes.  Names are absolute and take up no more than     *)
(* their buffer; the files are the sequence of their entries, the way      *)
(* find_file sees them: the newest of a name.                              *)
(***************************************************************************)
EXTENDS Integers, Sequences, FiniteSets

CONSTANTS
    Hda,              \* the name /dev/hda
    Compiled(_),      \* the bytes a hex0 source stands for
    Wants(_),         \* how much of stdin a program started with an argument reads
    Inputs,           \* [commands, text]: what is meant and what is on the disk
    Limit             \* BOUND: how many bytes are read, zeros behind the text included

ASSUME ShellAssumption ==
    /\ Limit \in Nat
    /\ \A in \in Inputs : Len(in.text) < Limit

Bytes == 0 .. 255

NUL == 0    \* bytes the shell tells apart
NL == 10
CR == 13
SP == 32
Hash == 35
Zero == 48
LetterF == 102
LetterH == 104
LetterS == 115

VARIABLES
    input,            \* the script that was put on the disk
    pos,              \* how many of its bytes were read
    mode,             \* where in internalshell and its handlers the shell is
    left,             \* bytes still to be skipped, stored or read
    count,            \* the count of src (s2)
    name, out,        \* the names that were parsed
    data,             \* what src, or a program, took from stdin so far
    files, enable_flush, disk

parsed == <<left, count, name, out, data>>
stored == <<files, enable_flush, disk>>
vars == <<input, pos, mode, parsed, stored>>

Init ==
    /\ input \in Inputs
    /\ pos = 0
    /\ mode = "loop"
    /\ left = 0 /\ count = 0
    /\ name = <<>> /\ out = <<>> /\ data = <<>>
    /\ files = <<>>
    /\ enable_flush = FALSE
    /\ disk = <<>>

\* The byte read_stdin_byte returns next: behind the script the disk is zero.
Byte == IF pos < Len(input.text) THEN input.text[pos + 1] ELSE NUL

Read == pos < Limit /\ pos' = pos + 1 /\ UNCHANGED input

-----------------------------------------------------------------------------
(* Files *)

Exists(fs, n) == \E i \in 1 .. Len(fs) : fs[i].name = n

Newest(fs, n) ==
    LET i == CHOOSE i \in 1 .. Len(fs) : fs[i].name = n /\ \A j \in i + 1 .. Len(fs) : fs[j].name # n
    IN fs[i].data

Entry(n, d) == Append(files, [name |-> n, data |-> d])

\* flush_disk
Flushed == IF Exists(files, Hda) THEN Newest(files, Hda) ELSE disk

-----------------------------------------------------------------------------
(* The first byte of a command, and the words the built-in ones are *)

\* Mutant: nothing is flushed before the end.
FlushedNever == disk

FlushedFirst == IF enable_flush THEN Flushed ELSE disk

\* shell_done prints, flushes and shuts the machine down.
Done ==
    /\ Byte = NUL
    /\ mode' = "halted"
    /\ disk' = Flushed
    /\ UNCHANGED <<parsed, files, enable_flush>>

Skipped ==
    /\ Byte \in {NL, CR}
    /\ UNCHANGED <<mode, parsed, stored>>

\* How many bytes of "src ", "hex0 " and of "f" and its newline are to come.
Rest == [src |-> 3, hex0 |-> 4, f |-> 1]

Builtin(b, word) ==
    /\ Byte = b
    /\ mode' = word
    /\ left' = Rest[word]
    /\ name' = <<>> /\ out' = <<>>
    /\ UNCHANGED <<count, data, stored>>

Comment ==
    /\ Byte = Hash
    /\ mode' = "comment"
    /\ UNCHANGED <<parsed, stored>>

\* handle_other_command: everything else is the name of a program.
Other ==
    /\ Byte \notin {NUL, NL, CR, Hash, LetterF, LetterH, LetterS}
    /\ disk' = FlushedFirst
    /\ mode' = "command"
    /\ name' = <<Byte>> /\ out' = <<>>
    /\ UNCHANGED <<left, count, data, files, enable_flush>>

ShellLoop ==
    /\ mode = "loop" /\ Read
    /\ \/ Done \/ Skipped \/ Comment \/ Other
       \/ Builtin(LetterS, "src") \/ Builtin(LetterH, "hex0") \/ Builtin(LetterF, "f")

LineEnds == Byte = NL

SkipComment ==
    /\ mode = "comment" /\ Read
    /\ mode' = IF LineEnds THEN "loop" ELSE mode
    /\ UNCHANGED <<parsed, stored>>

\* The rest of the word, whatever it is.
SkipWord ==
    /\ mode \in DOMAIN Rest /\ Read
    /\ left' = left - 1
    /\ mode' = IF left > 1 THEN mode
               ELSE [src |-> "count", hex0 |-> "in", f |-> "loop"][mode]
    /\ enable_flush' = (enable_flush \/ mode = "f")
    /\ count' = 0
    /\ UNCHANGED <<name, out, data, files, disk>>

-----------------------------------------------------------------------------
(* src N name *)

\* Mutant: digits count from 1.
DigitFromOne == Byte - Zero - 1

Digit == Byte - Zero

\* src_parse_count: any byte up to the space is taken for a digit.
ParseCount ==
    /\ mode = "count" /\ Read
    /\ IF Byte = SP
       THEN mode' = "name" /\ UNCHANGED count
       ELSE count' = 10 * count + Digit /\ UNCHANGED mode
    /\ UNCHANGED <<left, name, out, data, stored>>

\* The entry is made before the data are there, with length 0.
ReadName ==
    /\ mode = "name" /\ Read
    /\ IF Byte = NL
       THEN /\ files' = Entry(name, <<>>)
            /\ mode' = IF count = 0 THEN "loop" ELSE "data"
            /\ left' = count
            /\ UNCHANGED name
       ELSE name' = Append(name, Byte) /\ UNCHANGED <<files, mode, left>>
    /\ data' = <<>>
    /\ UNCHANGED <<count, out, enable_flush, disk>>

\* Mutant: one byte too many.
OneMore == left = 0

\* A count below zero never gets there.
LastByte == left = 1

\* src_read_data; the length is stored at the end.
ReadData ==
    /\ mode = "data" /\ Read
    /\ left' = left - 1
    /\ data' = Append(data, Byte)
    /\ IF LastByte
       THEN mode' = "loop" /\ files' = [files EXCEPT ![Len(files)].data = data']
       ELSE UNCHANGED <<mode, files>>
    /\ UNCHANGED <<count, name, out, enable_flush, disk>>

-----------------------------------------------------------------------------
(* hex0 input output *)

ReadInputName ==
    /\ mode = "in" /\ Read
    /\ IF Byte = SP THEN mode' = "out" /\ UNCHANGED name
                    ELSE name' = Append(name, Byte) /\ UNCHANGED mode
    /\ UNCHANGED <<left, count, out, data, stored>>

\* At the end of the line the source is compiled; a missing one is ignored.
ReadOutputName ==
    /\ mode = "out" /\ Read
    /\ IF Byte # NL
       THEN out' = Append(out, Byte) /\ UNCHANGED <<mode, files>>
       ELSE /\ mode' = "loop"
            /\ files' = IF Exists(files, name) THEN Entry(out, Compiled(Newest(files, name))) ELSE files
            /\ UNCHANGED out
    /\ UNCHANGED <<left, count, name, data, enable_flush, disk>>

-----------------------------------------------------------------------------
(* program argument *)

\* hoc_read_name: up to a space, even beyond the end of the line.
ReadCommandName ==
    /\ mode = "command" /\ Read
    /\ IF Byte = SP THEN mode' = "arg" /\ UNCHANGED name
                    ELSE name' = Append(name, Byte) /\ UNCHANGED mode
    /\ UNCHANGED <<left, count, out, data, stored>>

ReadArgument ==
    /\ mode = "arg" /\ Read
    /\ IF Byte # NL
       THEN out' = Append(out, Byte) /\ UNCHANGED mode
       ELSE mode' = (IF Exists(files, name) THEN "program" ELSE "loop") /\ UNCHANGED out
    /\ left' = IF Byte = NL THEN Wants(out) ELSE 0
    /\ data' = <<>>
    /\ UNCHANGED <<count, name, stored>>

\* A program reads its input with the system call ...
ProgramReads ==
    /\ mode = "program" /\ left > 0 /\ Read
    /\ left' = left - 1
    /\ data' = Append(data, Byte)
    /\ UNCHANGED <<mode, count, name, out, stored>>

\* ... writes it to the file it is told to, and exits to shell_return.
ProgramExits ==
    /\ mode = "program" /\ left = 0
    /\ files' = Entry(out, data)
    /\ mode' = "loop"
    /\ UNCHANGED <<input, pos, parsed, enable_flush, disk>>

Next ==
    \/ ShellLoop \/ SkipComment \/ SkipWord
    \/ ParseCount \/ ReadName \/ ReadData
    \/ ReadInputName \/ ReadOutputName
    \/ ReadCommandName \/ ReadArgument \/ ProgramReads \/ ProgramExits

Spec == Init /\ [][Next]_vars

\* One processor, nothing to wait for, and programs that exit.
FairSpec == Spec /\ WF_vars(Next)

-----------------------------------------------------------------------------
(* Properties *)

TypeOK ==
    /\ input \in Inputs
    /\ pos \in 0 .. Limit
    /\ mode \in {"loop", "comment", "src", "hex0", "f", "count", "name", "data", "in", "out",
                 "command", "arg", "program", "halted"}
    /\ left \in Nat /\ count \in Nat
    /\ mode = "data" => left > 0 /\ left + Len(data) = count
    /\ {name, out, data, disk} \subseteq Seq(Bytes)
    /\ \A i \in 1 .. Len(files) : files[i] \in [name : Seq(Bytes), data : Seq(Bytes)]
    /\ enable_flush \in BOOLEAN
=============================================================================
