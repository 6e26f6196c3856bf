--------------------------- MODULE ShellRefinement ---------------------------
(***************************************************************************)
(* The shell implements Commands: text becomes commands and nothing else.  *)
(***************************************************************************)
EXTENDS Shell, SequencesExt

(***************************************************************************)
(* How commands become the text of a script: the way the shell expects     *)
(* them, and the way hex0-to-src.sh writes them.                           *)
(***************************************************************************)
NewLine == <<10>>
Space == <<32>>

SrcWord == <<115, 114, 99>>
Hex0Word == <<104, 101, 120, 48>>
FWord == <<102>>

\* A number in decimal.
Decimal(n) ==
    LET digits[k \in 0 .. n] == IF k < 10 THEN <<48 + k>> ELSE Append(digits[k \div 10], 48 + (k % 10))
    IN digits[n]

Render(c) ==
    CASE c.op = "src" -> SrcWord \o Space \o Decimal(Len(c.data)) \o Space \o c.name \o NewLine \o c.data
      [] c.op = "hex0" -> Hex0Word \o Space \o c.name \o Space \o c.arg \o NewLine
      [] c.op = "f" -> FWord \o NewLine
      [] c.op = "run" -> c.name \o Space \o c.arg \o NewLine \o c.data
      [] c.op = "comment" -> <<35>> \o c.data \o NewLine
      [] c.op = "blank" -> NewLine

RenderAll(cs) == FlattenSeq([i \in 1 .. Len(cs) |-> Render(cs[i])])

\* hex0-to-src.sh: the count is the output of wc, and tr takes the blanks
\* off it but not the end of its line.
FromHex0(source, dev, hda, hex0) ==
    SrcWord \o Space \o <<48>> \o Space \o dev \o NewLine
    \o SrcWord \o Space \o Decimal(Len(hex0)) \o NewLine \o Space \o source \o NewLine \o hex0
    \o Hex0Word \o Space \o source \o Space \o hda \o NewLine
    \o FWord \o NewLine

(***************************************************************************)
(* What it takes for a text to mean its commands: names do not hold what   *)
(* ends them, a program is not called what a built-in command or a comment *)
(* starts with, and it is given as much input as it reads, when it exists. *)
(***************************************************************************)
CommandRecords ==
    [op : {"src", "hex0", "f", "run", "comment", "blank"}, name : Seq(Bytes), arg : Seq(Bytes), data : Seq(Bytes)]

\* The names of files after a command, if these were the names before it.
NamesAfter(c, names) ==
    names \cup (IF c.op = "src" THEN {c.name}
               ELSE IF c.op \in {"hex0", "run"} /\ c.name \in names THEN {c.arg} ELSE {})

\* The names of files after the first k commands of cs.
Known(cs) == LET known[k \in 0 .. Len(cs)] == IF k = 0 THEN {} ELSE NamesAfter(cs[k], known[k - 1]) IN known

Free(s, bytes) == \A i \in 1 .. Len(s) : s[i] \notin bytes

ToBeRead(c, names) == IF c.name \in names THEN Wants(c.arg) ELSE 0

Clear(c, names) ==
    /\ c.op = "src" => Free(c.name, {NL})
    /\ c.op = "hex0" => Free(c.name, {SP}) /\ Free(c.arg, {NL})
    /\ c.op = "run" =>
        /\ c.name # <<>> /\ c.name[1] \notin {NUL, NL, CR, Hash, LetterF, LetterH, LetterS}
        /\ Free(c.name, {SP}) /\ Free(c.arg, {NL})
        /\ Len(c.data) = ToBeRead(c, names)
    /\ c.op = "comment" => Free(c.data, {NL})

WellWritten(in) ==
    /\ in.commands \in Seq(CommandRecords)
    /\ in.text = RenderAll(in.commands)
    /\ \A k \in 1 .. Len(in.commands) : Clear(in.commands[k], Known(in.commands)[k - 1])

\* ... and that sources are compiled to bytes, and programs read so many of them.
Meant ==
    /\ \A s \in Seq(Bytes) : Compiled(s) \in Seq(Bytes) /\ Wants(s) \in Nat
    /\ \A in \in Inputs : WellWritten(in)

-----------------------------------------------------------------------------
\* A command is under way.
Busy == mode \notin {"loop", "halted"}

\* How much of the text the first k commands of cs are.
End(cs, k) == Len(RenderAll(SubSeq(cs, 1, k)))

\* How many commands are behind p bytes; the end of one may still be ahead.
Behind(cs, ahead, p) == Cardinality({k \in 1 .. Len(cs) : IF ahead THEN End(cs, k) < p ELSE End(cs, k) <= p})

Completed == Behind(input.commands, Busy, pos)

\* The entry of src is not there before its data are.
Stored == IF mode = "data" THEN SubSeq(files, 1, Len(files) - 1) ELSE files

Promise == INSTANCE Commands WITH
    Scripts <- {in.commands : in \in Inputs},
    script  <- SubSeq(input.commands, Completed + 1, Len(input.commands)),
    started <- Busy,
    files   <- Stored,
    halted  <- mode = "halted"

\* Each command of the script takes effect once, in order and as a whole, on
\* exactly the bytes it was given: the data of src may look like commands,
\* contain newlines and zeros, programs read between commands, f counts from
\* the next program on, and at the end the newest /dev/hda is on the disk.
ExecutesTheScript == Promise!Spec

\* Every script that ends is executed to its end.
Halts == <>(mode = "halted")

\* hex0-to-src.sh: its output is a script "that loads a hex0 file, compiles it
\* to /dev/hda, and flushes".  (The commands of such an input are what the
\* script of the repository is meant to say.)
CompilesTheSource ==
    mode = "halted" =>
        \A i, j \in 1 .. Len(input.commands) :
            LET src == input.commands[i]
                hex0 == input.commands[j]
            IN src.op = "src" /\ hex0.op = "hex0" /\ src.name = hex0.name
               => disk = Compiled(src.data)
=============================================================================
