-------------------------------- MODULE Hex0 --------------------------------
(***************************************************************************)
(* What a hex0 source stands for, and how the two compilers of the project *)
(* tell digits from other bytes: stage 1, which has to fit the boot        *)
(* sector, forces letters to upper case; the hex0 command of stage 2       *)
(* compares with each range.  Bytes are ASCII codes.                       *)
(***************************************************************************)
EXTENDS Integers, Sequences, SequencesExt, FiniteSets

NUL == 0
NL == 10
CommentSigns == {35, 59}                        \* # and ;

NoDigit == -1

-----------------------------------------------------------------------------
(* The reference *)

DigitSet == (48 .. 57) \cup (65 .. 70) \cup (97 .. 102)

DigitValue(b) == CASE b \in 48 .. 57  -> b - 48
                   [] b \in 65 .. 70  -> b - 65 + 10
                   [] b \in 97 .. 102 -> b - 97 + 10

\* A comment goes from its sign up to the end of its line.
InComment(text, i) ==
    \E j \in 1 .. i : text[j] \in CommentSigns /\ \A k \in j .. i : text[k] # NL

\* Where the digits of a text are.
Places(text) == {i \in DOMAIN text : text[i] \in DigitSet /\ ~InComment(text, i)}

\* The n-th digit is where there are n of them up to it.
Digits(text) ==
    LET at == Places(text)
    IN  [n \in 1 .. Cardinality(at) |->
            DigitValue(text[CHOOSE p \in at : Cardinality({q \in at : q <= p}) = n])]

\* Two digits make a byte; a last one alone makes none.
Assembled(text) ==
    LET d == Digits(text)
    IN [i \in 1 .. Len(d) \div 2 |-> 16 * d[2 * i - 1] + d[2 * i]]

-----------------------------------------------------------------------------
(* Stage 1: hex0_loop up to got_nibble *)

\* Mutant: the letters behind F are not rejected.
LettersBehind == 26

LetterDigits == 6

\* Registers are unsigned in the last comparison: below 0 is far up.
Beyond(n, limit) == n < 0 \/ n >= limit

Stage1Nibble(b) ==
    LET upper == IF b >= 97 THEN b - 32 ELSE b
        digit == upper - 48
    IN IF b < 33 \/ digit < 0 THEN NoDigit
       ELSE IF digit < 10 THEN digit
       ELSE IF Beyond(digit - 17, LetterDigits) THEN NoDigit
       ELSE digit - 17 + 10

(* Stage 2: hex0_compile_loop up to hex0_got_nibble *)

Stage2Nibble(b) ==
    IF b < 48 THEN NoDigit
    ELSE IF b < 58 THEN b - 48
    ELSE IF b < 65 THEN NoDigit
    ELSE IF b < 71 THEN b - 55
    ELSE IF b < 97 THEN NoDigit
    ELSE IF b < 103 THEN b - 97 + 10
    ELSE NoDigit
=============================================================================
