------------------------------- MODULE SdCard -------------------------------
(***************************************************************************)
(* The SD card driver of stage 2 over SPI, and the card.  Every byte is an *)
(* exchange: the driver sends one and gets one, so what a byte means       *)
(* depends on how far the other side has got, and a byte too many or too   *)
(* few shifts everything behind it.  The six bytes of a command go out in  *)
(* one step, the card is silent meanwhile.  The card takes every command:  *)
(* the driver looks at no answer that could say otherwise.                 *)
(***************************************************************************)
EXTENDS SdConstants

Idle == 255           \* the line at rest
Token == 254          \* data follow
Accepted == 0         \* R1: the command is taken
Written == 5          \* the data are taken
Busy == 0
CrcSize == 2

VARIABLES
    \* the driver: where it is, bytes it has still to exchange there
    at, left,
    request, memory, result,
    \* the card: what it does with the next byte, how far it is
    mode, count,
    addressed, latch, content

driver == <<at, left, request, memory, result>>
card == <<mode, count, addressed, latch, content>>
vars == <<driver, card>>

Blocks == [1 .. BlockSize -> Bytes]
Requests == [op : {"read", "write"}, sector : CardSectors]
Replies == Bytes \cup {Idle, Token, Accepted, Written, Busy}

\* Stage 1 has initialised the card.
Init ==
    /\ at = "idle" /\ left = 0 /\ result = 0
    /\ request \in Requests /\ memory \in Blocks
    /\ mode = "ready" /\ count = 0
    /\ addressed = request /\ latch = memory
    /\ content \in [CardSectors -> Blocks]

-----------------------------------------------------------------------------
(* The card, as the driver relies on it: one exchanged byte *)

Become(m, n) == mode' = m /\ count' = n

Ready(out, in) ==
    /\ mode = "ready" /\ in = Idle
    /\ UNCHANGED card

\* The answer to a command may be late ...
Delay(out, in) ==
    /\ mode = "answer" /\ in = Idle /\ count < MaxDelay
    /\ Become("answer", count + 1)
    /\ UNCHANGED <<addressed, latch, content>>

Answer(out, in) ==
    /\ mode = "answer" /\ in = Accepted
    /\ Become(IF addressed.op = "read" THEN "access" ELSE "expect", 0)
    /\ UNCHANGED <<addressed, latch, content>>

\* ... and so may be the data.
Access(out, in) ==
    /\ mode = "access"
    /\ \/ in = Idle /\ Become(mode, count)
       \/ in = Token /\ Become("send", 1)
    /\ UNCHANGED <<addressed, latch, content>>

Send(out, in) ==
    /\ mode = "send" /\ in = content[addressed.sector][count]
    /\ IF count < BlockSize THEN Become("send", count + 1) ELSE Become("crc", 1)
    /\ UNCHANGED <<addressed, latch, content>>

Crc(out, in) ==
    /\ mode = "crc" /\ in \in Bytes
    /\ IF count < CrcSize THEN Become("crc", count + 1) ELSE Become("ready", 0)
    /\ UNCHANGED <<addressed, latch, content>>

Expect(out, in) ==
    /\ mode = "expect" /\ in = Idle
    /\ IF out = Token THEN Become("take", 1) ELSE Become(mode, count)
    /\ UNCHANGED <<addressed, latch, content>>

Take(out, in) ==
    /\ mode = "take" /\ in = Idle
    /\ latch' = [latch EXCEPT ![count] = out]
    /\ IF count < BlockSize THEN Become("take", count + 1) ELSE Become("check", 1)
    /\ UNCHANGED <<addressed, content>>

Check(out, in) ==
    /\ mode = "check" /\ in = Idle
    /\ IF count < CrcSize
       THEN Become("check", count + 1) /\ UNCHANGED content
       ELSE Become("accept", 0) /\ content' = [content EXCEPT ![addressed.sector] = latch]
    /\ UNCHANGED <<addressed, latch>>

Accept(out, in) ==
    /\ mode = "accept" /\ in = Written
    /\ Become("busy", 0)
    /\ UNCHANGED <<addressed, latch, content>>

Program(out, in) ==
    /\ mode = "busy"
    /\ \/ in = Busy /\ Become(mode, count)
       \/ in = Idle /\ Become("ready", 0)
    /\ UNCHANGED <<addressed, latch, content>>

\* spi_transfer: out goes to the card, in comes back.
Exchange(out, in) ==
    \/ Ready(out, in) \/ Delay(out, in) \/ Answer(out, in)
    \/ Access(out, in) \/ Send(out, in) \/ Crc(out, in)
    \/ Expect(out, in) \/ Take(out, in) \/ Check(out, in)
    \/ Accept(out, in) \/ Program(out, in)

-----------------------------------------------------------------------------
(* spi_sd_cmd *)

\* Mutant: the sector number is the address.
Unshifted(s) == s

\* The argument of a command: a byte address, in 32 bits.
Address(s) == (s * BlockSize) % AddressSpace

Call(r, v) ==
    /\ at = "idle"
    /\ at' = "command"
    /\ request' = r /\ memory' = v
    /\ UNCHANGED <<left, result, card>>

\* CMD17 or CMD24.  A card in the middle of something takes it for data.
Command ==
    /\ at = "command"
    /\ at' = "poll" /\ left' = Polls
    /\ IF mode = "ready"
       THEN /\ addressed' = [request EXCEPT !.sector = Address(@) \div BlockSize]
            /\ Become("answer", 0)
       ELSE UNCHANGED <<addressed, mode, count>>
    /\ UNCHANGED <<request, memory, result, latch, content>>

Answered(in) == in < 128

\* What a command is followed by, answered or given up.
Behind == IF request.op = "read" THEN "token" ELSE "pad"

\* Mutant: it never gives up.
PollOn ==
    /\ at = "poll"
    /\ \E in \in Replies :
         /\ Exchange(Idle, in)
         /\ at' = IF Answered(in) THEN Behind ELSE "poll"
    /\ left' = left - 1
    /\ UNCHANGED <<request, memory, result>>

Poll ==
    /\ at = "poll"
    /\ \E in \in Replies :
         /\ Exchange(Idle, in)
         /\ at' = IF Answered(in) \/ left = 1 THEN Behind ELSE "poll"
    /\ left' = left - 1
    /\ UNCHANGED <<request, memory, result>>

-----------------------------------------------------------------------------
(* spi_sd_read_sector *)

\* Mutant: a byte is read and dropped first, as in a write.
DropThenWait ==
    /\ at = "token"
    /\ \E in \in Replies :
         /\ Exchange(Idle, in)
         /\ at' = IF left = BlockSize /\ in = Token THEN "data" ELSE "token"
    /\ left' = BlockSize
    /\ UNCHANGED <<request, memory, result>>

WaitToken ==
    /\ at = "token"
    /\ \E in \in Replies :
         /\ Exchange(Idle, in)
         /\ IF in = Token THEN at' = "data" /\ left' = BlockSize ELSE UNCHANGED <<at, left>>
    /\ UNCHANGED <<request, memory, result>>

\* The byte of the sector the loop has reached.
Index == BlockSize + 1 - left

ReadByte ==
    /\ at = "data"
    /\ \E in \in Replies :
         /\ Exchange(Idle, in)
         /\ memory' = [memory EXCEPT ![Index] = in]
    /\ IF left = 1 THEN at' = "crc" /\ left' = CrcSize ELSE at' = at /\ left' = left - 1
    /\ UNCHANGED <<request, result>>

\* Mutant: one byte behind the data is left where it is.
ReadOneCrc ==
    /\ at = "crc"
    /\ \E in \in Replies : Exchange(Idle, in)
    /\ at' = "idle" /\ left' = 0 /\ result' = 0
    /\ UNCHANGED <<request, memory>>

ReadCrc ==
    /\ at = "crc"
    /\ \E in \in Replies : Exchange(Idle, in)
    /\ left' = left - 1
    /\ IF left = 1 THEN at' = "idle" /\ result' = 0 ELSE UNCHANGED <<at, result>>
    /\ UNCHANGED <<request, memory>>

-----------------------------------------------------------------------------
(* spi_sd_write_sector *)

Pad ==
    /\ at = "pad"
    /\ \E in \in Replies : Exchange(Idle, in)
    /\ at' = "start"
    /\ UNCHANGED <<left, request, memory, result>>

StartBlock ==
    /\ at = "start"
    /\ \E in \in Replies : Exchange(Token, in)
    /\ at' = "send" /\ left' = BlockSize
    /\ UNCHANGED <<request, memory, result>>

WriteByte ==
    /\ at = "send"
    /\ \E in \in Replies : Exchange(memory[Index], in)
    /\ IF left = 1 THEN at' = "check" /\ left' = CrcSize ELSE at' = at /\ left' = left - 1
    /\ UNCHANGED <<request, memory, result>>

WriteCrc ==
    /\ at = "check"
    /\ \E in \in Replies : Exchange(Idle, in)
    /\ left' = left - 1
    /\ at' = IF left = 1 THEN "response" ELSE "check"
    /\ UNCHANGED <<request, memory, result>>

\* The card's answer is read and not looked at.
Response ==
    /\ at = "response"
    /\ \E in \in Replies : Exchange(Idle, in)
    /\ at' = "busy"
    /\ UNCHANGED <<left, request, memory, result>>

WaitReady ==
    /\ at = "busy"
    /\ \E in \in Replies :
         /\ Exchange(Idle, in)
         /\ IF in = Busy THEN UNCHANGED <<at, result>> ELSE at' = "idle" /\ result' = 0
    /\ UNCHANGED <<left, request, memory>>

-----------------------------------------------------------------------------

Driver ==
    \/ Command \/ Poll \/ WaitToken \/ ReadByte \/ ReadCrc
    \/ Pad \/ StartBlock \/ WriteByte \/ WriteCrc \/ Response \/ WaitReady

Next ==
    \/ \E r \in Requests, v \in Blocks : Call(r, v)
    \/ Driver

Spec == Init /\ [][Next]_vars

-----------------------------------------------------------------------------
(* Properties *)

TypeOK ==
    /\ at \in {"idle", "command", "poll", "token", "data", "crc",
               "pad", "start", "send", "check", "response", "busy"}
    /\ left \in 0 .. Polls \cup 0 .. BlockSize \cup 0 .. CrcSize
    /\ request \in Requests /\ memory \in Blocks /\ result = 0
    /\ mode \in {"ready", "answer", "access", "send", "crc",
                 "expect", "take", "check", "accept", "busy"}
    /\ count \in 0 .. MaxDelay \cup 0 .. BlockSize \cup 0 .. CrcSize
    /\ addressed \in Requests /\ latch \in Blocks
    /\ content \in [CardSectors -> Blocks]

\* The driver and the card agree on what the next byte is: no call begins
\* while the card has a byte left of the one before, whatever the delays, and
\* data are taken for data even when they look like a token or a busy line.
InStep ==
    /\ at \in {"idle", "command"} => mode = "ready"
    /\ at \in {"data", "crc", "send", "check"} =>
         /\ mode = CASE at = "data" -> "send" [] at = "send" -> "take" [] OTHER -> at
         /\ count + left = 1 + (IF at \in {"data", "send"} THEN BlockSize ELSE CrcSize)

Moved == at \in {"crc", "response", "busy"}

\* What a read has got of a sector counts when it has all of it.
Promise == INSTANCE Disk WITH
    Sectors <- CardSectors, Values <- Blocks,
    phase <- IF at = "idle" THEN "idle" ELSE IF Moved THEN "ok" ELSE "called",
    memory <- IF request.op = "read" /\ at # "idle" /\ ~Moved
              THEN CHOOSE v \in Blocks : TRUE ELSE memory

\* A call moves one sector, all of it and no other.
CardImplementsDisk == Promise!Spec

-----------------------------------------------------------------------------
(* The inductive invariant *)

\* What an answer that has not come by the last poll leaves: the card can let
\* no more bytes pass.
Overdue == mode = "answer" /\ count = Polls

Agreement ==
    /\ at \in {"idle", "command"} => mode = "ready"
    /\ at \notin {"idle", "command"} => addressed = request
    /\ at \in {"token", "data", "crc"} => request.op = "read"
    /\ at \in {"pad", "start", "send", "check", "response", "busy"} => request.op = "write"
    /\ at = "poll" => mode = "answer" /\ left \in 1 .. Polls /\ count = Polls - left
    /\ at = "token" => mode = "access" \/ Overdue
    /\ at = "pad" => mode = "expect" \/ Overdue
    /\ at = "start" => mode = "expect"
    /\ at = "response" => mode = "accept"
    /\ at = "busy" => mode = "busy"

\* A transfer of n bytes: both sides count the same.
Together(n) == left \in 1 .. n /\ count = n + 1 - left

Transfer ==
    /\ at = "data" =>
         /\ mode = "send" /\ Together(BlockSize)
         /\ \A i \in 1 .. BlockSize : i < count => memory[i] = content[request.sector][i]
    /\ at = "crc" => mode = "crc" /\ Together(CrcSize) /\ memory = content[request.sector]
    /\ at = "send" =>
         /\ mode = "take" /\ Together(BlockSize)
         /\ \A i \in 1 .. BlockSize : i < count => latch[i] = memory[i]
    /\ at = "check" => mode = "check" /\ Together(CrcSize) /\ latch = memory

IInv == TypeOK /\ Agreement /\ Transfer
=============================================================================
