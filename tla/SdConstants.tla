---------------------------- MODULE SdConstants ----------------------------
(* The parameters of the two SD card drivers, and those of their cards. *)
EXTENDS Naturals

CONSTANTS
    BlockSize,        \* 512: bytes of a sector, or 128 words of it
    Bytes,            \* what a byte, or a word, of a sector can be
    AddressSpace,     \* 2^32: a command carries a byte address of 32 bits
    Polls,            \* 8: bytes spi_sd_cmd waits for an answer
    MaxDelay,         \* bytes the card may let pass before it answers
    StdinSector,      \* where standard input begins, as stage 1 hands it over
    PreloadBlocks     \* 16128: the sectors the Raspberry Pi reads at once

\* A card answers at the latest with the byte behind the last poll.
ASSUME SdAssumption ==
    /\ BlockSize \in Nat \ {0} /\ AddressSpace \in Nat /\ BlockSize <= AddressSpace
    /\ Bytes # {} /\ Bytes \subseteq 0 .. 255
    /\ Polls \in Nat \ {0} /\ MaxDelay \in 0 .. Polls

\* A card is as large as an address can tell.
CardSectors == 0 .. (AddressSpace \div BlockSize) - 1

\* The card holds what is read at once.
ASSUME PreloadAssumption ==
    /\ StdinSector \in Nat /\ PreloadBlocks \in Nat \ {0}
    /\ StdinSector + PreloadBlocks <= AddressSpace \div BlockSize
=============================================================================
