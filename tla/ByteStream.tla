----------------------------- MODULE ByteStream -----------------------------
(***************************************************************************)
(* What standard input promises: the bytes of the disk behind the kernel's *)
(* source, one after the other, whoever asks for the next one.             *)
(***************************************************************************)
EXTENDS Naturals

CONSTANTS
    Image(_),             \* the bytes of the disk at boot, by position
    None                  \* no byte was read

VARIABLES
    pos,                  \* how many bytes were read
    got                   \* the byte that was read last

Init == pos = 0 /\ got = None

Next == pos' = pos + 1 /\ got' = Image(pos)

Spec == Init /\ [][Next]_<<pos, got>>
=============================================================================
