----------------------------- MODULE Hex0Command -----------------------------
(***************************************************************************)
(* The compiler behind the hex0 command of stage 2.  Its source is a file: *)
(* it ends with the last byte and may contain zeros.                       *)
(***************************************************************************)
EXTENDS Hex0

VARIABLES
    text,             \* the source
    at,               \* bytes of the source that were read (s1)
    mode,             \* "waiting" for a source, "code", "comment" or "done"
    state, high,      \* the two halves of s0
    output

vars == <<text, at, mode, state, high, output>>

Init ==
    /\ text = <<>> /\ at = 0
    /\ mode = "waiting"
    /\ state = 0 /\ high = 0
    /\ output = <<>>

\* handle_hex0 has found its source, a file with these bytes.
Start(bytes) ==
    /\ mode = "waiting"
    /\ text' = bytes /\ at' = 0
    /\ mode' = "code"
    /\ state' = 0 /\ high' = 0
    /\ output' = <<>>

\* Mutant: the first zero ends the source, as in stage 1.
AtNUL == IF at = Len(text) THEN TRUE ELSE text[at + 1] = NUL

AtEnd == at = Len(text)

GotNibble(n) ==
    IF state = 0
    THEN high' = 16 * n /\ state' = 1 /\ UNCHANGED output
    ELSE output' = Append(output, high + n) /\ state' = 0 /\ UNCHANGED high

CompileLoop ==
    /\ mode = "code" /\ ~AtEnd
    /\ at' = at + 1
    /\ LET b == text[at'] IN
       \/ b \in CommentSigns /\ mode' = "comment" /\ UNCHANGED <<state, high, output>>
       \/ b \notin CommentSigns /\ Stage2Nibble(b) = NoDigit /\ UNCHANGED <<mode, state, high, output>>
       \/ b \notin CommentSigns /\ Stage2Nibble(b) # NoDigit /\ GotNibble(Stage2Nibble(b)) /\ UNCHANGED mode
    /\ UNCHANGED text

SkipComment ==
    /\ mode = "comment" /\ ~AtEnd
    /\ at' = at + 1
    /\ mode' = IF text[at'] = NL THEN "code" ELSE "comment"
    /\ UNCHANGED <<text, state, high, output>>

Done ==
    /\ mode \in {"code", "comment"} /\ AtEnd
    /\ mode' = "done"
    /\ UNCHANGED <<text, at, state, high, output>>

\* The steps behind Start.
Next == CompileLoop \/ SkipComment \/ Done

-----------------------------------------------------------------------------
(* Properties *)

TypeOK ==
    /\ at \in 0 .. Len(text)
    /\ mode \in {"waiting", "code", "comment", "done"}
    /\ state \in {0, 1} /\ high \in {16 * n : n \in 0 .. 15}
    /\ output \in Seq(0 .. 255)

\* hex0 makes of a file what stage 1 makes of the same text on a disk.
CompilesTheFile ==
    /\ IsPrefix(output, Assembled(text))
    /\ mode = "done" => output = Assembled(text)
=============================================================================
