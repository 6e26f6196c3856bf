------------------------------- MODULE MCShell -------------------------------
EXTENDS ShellRefinement

\* Names of one letter: /dev/hda, a program, a source.
A == <<97>>
D == <<100>>
P == <<112>>

\* Pairs of digits, what else there is left out.
MCCompiled(s) ==
    LET digits == SelectSeq(s, LAMBDA b : b \in 48 .. 57)
    IN [i \in 1 .. Len(digits) \div 2 |-> 16 * (digits[2 * i - 1] - 48) + digits[2 * i] - 48]

\* A program reads two bytes when it is to write the source, else none.
MCWants(arg) == IF arg = A THEN 2 ELSE 0

Cmd(o, n, a, d) == [op |-> o, name |-> n, arg |-> a, data |-> d]

\* Data that are commands, ends of lines, ends of the script.
MCCommands == {
    Cmd("src", D, <<>>, <<102, NL>>),
    Cmd("src", D, <<>>, <<NUL>>),
    Cmd("src", A, <<>>, <<48, 49, NL, 115, 50, 51, 35, 48, SP, NL>>),
    Cmd("src", P, <<>>, <<>>),
    Cmd("hex0", A, D, <<>>),
    Cmd("f", <<>>, <<>>, <<>>),
    Cmd("run", P, A, <<54, NL>>),
    Cmd("run", P, D, <<>>),
    Cmd("comment", <<>>, <<>>, <<102, 35>>),
    Cmd("blank", <<>>, <<>>, <<>>) }

\* A program that is not there reads no input.
Sensible(s) ==
    \A i \in 1 .. Len(s) :
        s[i].op = "run" /\ s[i].data # <<>> => \E j \in 1 .. i - 1 : s[j].op = "src" /\ s[j].name = P

Scripts(n) == {s \in UNION {[1 .. k -> MCCommands] : k \in 0 .. n} : Sensible(s)}

MCInputs == {[commands |-> s, text |-> RenderAll(s)] : s \in Scripts(3)}

ASSUME MCShellAssumption == \A in \in MCInputs : WellWritten(in)

\* A source of six bytes and what hex0-to-src.sh makes of it.
Source == <<52, 49, NL, 52, 50, NL>>
MCGenerated ==
    {[commands |-> <<Cmd("src", <<47, 100>>, <<>>, <<>>), Cmd("src", A, <<>>, Source),
                     Cmd("hex0", A, D, <<>>), Cmd("f", <<>>, <<>>, <<>>)>>,
      text |-> FromHex0(A, <<47, 100>>, D, Source)]}
=============================================================================
