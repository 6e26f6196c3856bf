------------------------------- MODULE Sdhci -------------------------------
(***************************************************************************)
(* The SD host controller of the Raspberry Pi, its driver in stage 2, and  *)
(* the card behind it.  The controller is given a command and goes on by   *)
(* itself; the driver learns how far it is from bits that stay set until   *)
(* it clears them, and moves the data word by word through one port.       *)
(*                                                                         *)
(* The driver relies on both for what it does not wait for: the next block *)
(* of several is there when the last word of one is taken, a transfer ends *)
(* with the last word that is read, and one ACMD41 makes a card ready.     *)
(***************************************************************************)
EXTENDS SdConstants, Sequences

VARIABLES
    \* the driver: the call under way and where in it; commands or blocks, and
    \* words of a block, it has still to see to
    task, step, todo, togo,
    wanted, buffer,         \* the last call for a sector, and its buffer
    preloaded, stdin_sector,    \* what was read at once, the sector that is next
    \* the registers: status bits, what is switched on, the command written
    \* last, the answer to it
    status, on, order, response,
    \* the controller's work and the words in its buffer
    work, fifo,
    \* the card
    card, app, content

driver == <<task, step, todo, togo, wanted, buffer, preloaded, stdin_sector>>
sdcard == <<card, app, content>>
host == <<status, on, order, response, work, fifo>>
vars == <<driver, host, sdcard>>

Blocks == [1 .. BlockSize -> Bytes]
Requests == [op : {"read", "write"}, sector : CardSectors]

\* Clocks, power, and the bits of the status that may be set.
AllOn == {"clock", "power", "events"}

RCA == 1              \* the address a card gives itself

\* Stage 1 has initialised the controller and the card.
Init ==
    /\ task = "preload" /\ step = "start" /\ todo = 0 /\ togo = 0
    /\ wanted \in Requests /\ buffer \in Blocks
    /\ preloaded \in [1 .. PreloadBlocks -> Blocks] /\ stdin_sector = StdinSector
    /\ status = {} /\ on = AllOn /\ response = 0
    /\ order = [cmd |-> "CMD16", arg |-> 0, blocks |-> 0]
    /\ work = "none" /\ fifo = <<>>
    /\ card = "tran" /\ app = FALSE
    /\ content \in [CardSectors -> Blocks]

-----------------------------------------------------------------------------
(* The controller and the card, as the driver relies on them *)

\* A command, in which states the card takes it, and the state behind it.
Takes == [CMD0   |-> {"idle", "ready", "ident", "stby", "tran"},
          CMD8   |-> {"idle"}, CMD55 |-> {"idle", "stby", "tran"}, ACMD41 |-> {"idle"},
          CMD2   |-> {"ready"}, CMD3 |-> {"ident", "stby"}, CMD7 |-> {"stby"},
          CMD16  |-> {"tran"}, CMD17 |-> {"tran"}, CMD18 |-> {"tran"}, CMD24 |-> {"tran"}]

Behind == [CMD0 |-> "idle", CMD8 |-> "idle", CMD55 |-> card, ACMD41 |-> "ready", CMD2 |-> "ident",
           CMD3 |-> "stby", CMD7 |-> "tran", CMD16 |-> "tran", CMD17 |-> "tran", CMD18 |-> "tran",
           CMD24 |-> "tran"]

\* A card that does not take a command is silent.
Taken ==
    /\ card \in Takes[order.cmd]
    /\ order.cmd = "ACMD41" => app
    /\ order.cmd = "CMD7" => order.arg = RCA

Sector == order.arg \div BlockSize

\* The command is complete: one that was answered, or CMD0.
CommandComplete ==
    /\ work = "command" /\ Taken
    /\ work' = CASE order.cmd \in {"CMD17", "CMD18"} -> "fetch" [] order.cmd = "CMD24" -> "room" [] OTHER -> "none"
    /\ status' = status \cup {"CC"}
    /\ response' = IF order.cmd = "CMD3" THEN RCA ELSE 0
    /\ card' = Behind[order.cmd] /\ app' = (order.cmd = "CMD55")
    /\ UNCHANGED <<driver, on, order, fifo, content>>

\* A block is there to be read.
BufferReadReady ==
    /\ work = "fetch"
    /\ work' = "serve" /\ fifo' = content[Sector]
    /\ status' = status \cup {"BRR"}
    /\ UNCHANGED <<driver, on, order, response, sdcard>>

\* There is room for a block to be written.
BufferWriteReady ==
    /\ work = "room"
    /\ work' = "take" /\ fifo' = <<>>
    /\ status' = status \cup {"BWR"}
    /\ UNCHANGED <<driver, on, order, response, sdcard>>

\* The card has programmed a block.
TransferComplete ==
    /\ work = "program"
    /\ work' = "none" /\ fifo' = <<>>
    /\ content' = [content EXCEPT ![Sector] = fifo]
    /\ status' = status \cup {"TC"}
    /\ UNCHANGED <<driver, on, order, response, card, app>>

\* The clock is stable.
ClockStable ==
    /\ on = {"starting"}
    /\ on' = {"clock"}
    /\ UNCHANGED <<driver, status, order, response, work, fifo, sdcard>>

Controller == CommandComplete \/ BufferReadReady \/ BufferWriteReady \/ TransferComplete \/ ClockStable

\* The driver writes the command register; nothing happens without a clock.
Issue(cmd, arg, blocks) ==
    /\ order' = [cmd |-> cmd, arg |-> arg, blocks |-> blocks]
    /\ work' = IF on = AllOn THEN "command" ELSE work

\* It reads w from the data port: the next block is there at once, or the
\* transfer is complete.  Out of turn it reads anything.
PortRead(w) ==
    /\ work = "serve" => w = Head(fifo)
    /\ IF work # "serve" THEN UNCHANGED <<fifo, order, work, status>>
       ELSE IF Len(fifo) > 1 THEN fifo' = Tail(fifo) /\ UNCHANGED <<order, work, status>>
       ELSE IF order.blocks > 1
       THEN /\ fifo' = content[Sector + 1]
            /\ order' = [order EXCEPT !.arg = @ + BlockSize, !.blocks = @ - 1]
            /\ status' = status \cup {"BRR"}
            /\ UNCHANGED work
       ELSE fifo' = <<>> /\ work' = "none" /\ status' = status \cup {"TC"} /\ UNCHANGED order

\* It writes w to the data port.
PortWrite(w) ==
    /\ fifo' = IF work = "take" THEN Append(fifo, w) ELSE fifo
    /\ work' = IF work = "take" /\ Len(fifo') = BlockSize THEN "program" ELSE work

-----------------------------------------------------------------------------
(* sdhci_read_sector, and the preload of internalshell *)

\* lsl w10, w20, #9
Address(s) == (s * BlockSize) % AddressSpace

Done == step' = "idle" /\ todo' = 0 /\ togo' = 0

Call(r, v) ==
    /\ step = "idle"
    /\ task' = r.op /\ step' = "start"
    /\ wanted' = r /\ buffer' = v
    /\ UNCHANGED <<todo, togo, preloaded, stdin_sector, host, sdcard>>

StartRead ==
    /\ task = "read" /\ step = "start"
    /\ step' = "brr" /\ todo' = 1
    /\ status' = status \ {"CC", "TC", "BRR"}
    /\ Issue("CMD17", Address(wanted.sector), 1)
    /\ UNCHANGED <<task, togo, wanted, buffer, preloaded, stdin_sector, on, response, fifo, sdcard>>

StartPreload ==
    /\ task = "preload" /\ step = "start"
    /\ step' = "brr" /\ todo' = PreloadBlocks
    /\ status' = {}
    /\ Issue("CMD18", Address(stdin_sector), PreloadBlocks)
    /\ UNCHANGED <<task, togo, wanted, buffer, preloaded, stdin_sector, on, response, fifo, sdcard>>

\* Mutant: it waits for the command instead of the block.
WaitCommand ==
    /\ step = "brr" /\ "CC" \in status
    /\ step' = "get" /\ togo' = BlockSize
    /\ UNCHANGED <<task, todo, wanted, buffer, preloaded, stdin_sector, host, sdcard>>

WaitRead ==
    /\ step = "brr" /\ "BRR" \in status
    /\ step' = "get" /\ togo' = BlockSize
    /\ UNCHANGED <<task, todo, wanted, buffer, preloaded, stdin_sector, host, sdcard>>

\* The word of the block the loop has reached.
Index == BlockSize + 1 - togo

\* Of the bits nothing is cleared between the blocks of a preload.
ReadWord ==
    /\ step = "get"
    /\ \E w \in Bytes :
         /\ PortRead(w)
         /\ IF task = "preload"
            THEN preloaded' = [preloaded EXCEPT ![PreloadBlocks + 1 - todo][Index] = w] /\ UNCHANGED buffer
            ELSE buffer' = [buffer EXCEPT ![Index] = w] /\ UNCHANGED preloaded
    /\ togo' = togo - 1
    /\ IF togo > 1 THEN UNCHANGED <<step, todo>>
       ELSE todo' = todo - 1 /\ step' = IF todo > 1 THEN "brr" ELSE "end"
    /\ UNCHANGED <<task, wanted, stdin_sector, on, response, sdcard>>

EndRead ==
    /\ task = "read" /\ step = "end"
    /\ Done
    /\ status' = status \ {"CC", "TC", "BRR"}
    /\ UNCHANGED <<task, wanted, buffer, preloaded, stdin_sector, on, order, response, work, fifo, sdcard>>

\* Mutant: one sector counts as read.
AdvanceOne ==
    /\ task = "preload" /\ step = "end"
    /\ Done
    /\ stdin_sector' = stdin_sector + 1
    /\ status' = {}
    /\ UNCHANGED <<task, wanted, buffer, preloaded, on, order, response, work, fifo, sdcard>>

EndPreload ==
    /\ task = "preload" /\ step = "end"
    /\ Done
    /\ stdin_sector' = stdin_sector + PreloadBlocks
    /\ status' = {}
    /\ UNCHANGED <<task, wanted, buffer, preloaded, on, order, response, work, fifo, sdcard>>

-----------------------------------------------------------------------------
(* sdhci_write_sector *)

StartWrite ==
    /\ task = "write" /\ step = "start"
    /\ step' = "bwr"
    /\ status' = {}
    /\ Issue("CMD24", Address(wanted.sector), 1)
    /\ UNCHANGED <<task, todo, togo, wanted, buffer, preloaded, stdin_sector, on, response, fifo, sdcard>>

WaitWrite ==
    /\ step = "bwr" /\ "BWR" \in status
    /\ step' = "put" /\ togo' = BlockSize
    /\ UNCHANGED <<task, todo, wanted, buffer, preloaded, stdin_sector, host, sdcard>>

WriteWord ==
    /\ step = "put"
    /\ PortWrite(buffer[Index])
    /\ togo' = togo - 1
    /\ step' = IF togo > 1 THEN "put" ELSE "tc"
    /\ UNCHANGED <<task, todo, wanted, buffer, preloaded, stdin_sector, status, on, order, response, sdcard>>

\* Mutant: it does not wait for the card.
ReturnAtOnce ==
    /\ step = "tc"
    /\ Done
    /\ status' = {}
    /\ UNCHANGED <<task, wanted, buffer, preloaded, stdin_sector, on, order, response, work, fifo, sdcard>>

EndWrite ==
    /\ step = "tc" /\ "TC" \in status
    /\ Done
    /\ status' = {}
    /\ UNCHANGED <<task, wanted, buffer, preloaded, stdin_sector, on, order, response, work, fifo, sdcard>>

-----------------------------------------------------------------------------
(* sdhci_reinit_card: what flush_disk does before it writes *)

InitCommands == <<"CMD0", "CMD8", "CMD55", "ACMD41", "CMD2", "CMD3", "CMD7", "CMD16">>

\* Software reset: the registers are cleared and the clocks start again.
Reinit ==
    /\ step = "idle"
    /\ task' = "reinit" /\ step' = "clock"
    /\ status' = {} /\ on' = {"starting"} /\ response' = 0
    /\ order' = [cmd |-> "CMD0", arg |-> 0, blocks |-> 0]
    /\ work' = "none" /\ fifo' = <<>>
    /\ UNCHANGED <<todo, togo, wanted, buffer, preloaded, stdin_sector, sdcard>>

SwitchOn ==
    /\ step = "clock" /\ "clock" \in on
    /\ step' = "start" /\ todo' = 1
    /\ on' = AllOn
    /\ UNCHANGED <<task, togo, wanted, buffer, preloaded, stdin_sector,
                   status, order, response, work, fifo, sdcard>>

\* CMD7's argument is the answer to the command before it.
StartCommand ==
    /\ task = "reinit" /\ step = "start"
    /\ step' = "cc"
    /\ Issue(InitCommands[todo], IF InitCommands[todo] = "CMD7" THEN response ELSE 0, 0)
    /\ UNCHANGED <<task, todo, togo, wanted, buffer, preloaded, stdin_sector, status, on, response, fifo, sdcard>>

\* Mutant: the bit stays set.
WaitOnly ==
    /\ step = "cc" /\ "CC" \in status
    /\ IF todo < Len(InitCommands) THEN step' = "start" /\ todo' = todo + 1 /\ UNCHANGED togo ELSE Done
    /\ UNCHANGED <<task, wanted, buffer, preloaded, stdin_sector, host, sdcard>>

\* sdhci_cmd_wait
EndCommand ==
    /\ step = "cc" /\ "CC" \in status
    /\ status' = {}
    /\ IF todo < Len(InitCommands) THEN step' = "start" /\ todo' = todo + 1 /\ UNCHANGED togo ELSE Done
    /\ UNCHANGED <<task, wanted, buffer, preloaded, stdin_sector, on, order, response, work, fifo, sdcard>>

-----------------------------------------------------------------------------

Driver ==
    \/ StartRead \/ StartPreload \/ WaitRead \/ ReadWord \/ EndRead \/ EndPreload
    \/ StartWrite \/ WaitWrite \/ WriteWord \/ EndWrite
    \/ SwitchOn \/ StartCommand \/ EndCommand

Next ==
    \/ \E r \in Requests, v \in Blocks : Call(r, v)
    \/ Reinit
    \/ Driver
    \/ Controller

Spec == Init /\ [][Next]_vars

-----------------------------------------------------------------------------
(* Properties *)

TypeOK ==
    /\ task \in {"preload", "read", "write", "reinit"}
    /\ step \in {"idle", "start", "brr", "get", "end", "bwr", "put", "tc", "clock", "cc"}
    /\ todo \in 0 .. PreloadBlocks \cup 0 .. Len(InitCommands) /\ togo \in 0 .. BlockSize
    /\ wanted \in Requests /\ buffer \in Blocks
    /\ preloaded \in [1 .. PreloadBlocks -> Blocks] /\ stdin_sector \in {StdinSector, StdinSector + PreloadBlocks}
    /\ status \subseteq {"CC", "TC", "BRR", "BWR"}
    /\ on \subseteq AllOn \cup {"starting"} /\ response \in {0, RCA}
    /\ order \in [cmd : DOMAIN Takes, arg : 0 .. AddressSpace, blocks : 0 .. PreloadBlocks]
    /\ work \in {"none", "command", "fetch", "serve", "room", "take", "program"}
    /\ fifo \in Seq(Bytes)
    /\ card \in Takes["CMD0"] /\ app \in BOOLEAN
    /\ content \in [CardSectors -> Blocks]

\* The data port is used in turn only, and both sides count the same words
\* and blocks; when a call returns, no bit, no word and no work of it is left
\* over for the next one, and the card is ready to be read and written.
InTurn ==
    /\ step = "get" => work = "serve" /\ Len(fifo) = togo /\ order.blocks = todo
    /\ step = "put" => work = "take" /\ Len(fifo) = BlockSize - togo
    /\ step = "idle" => status = {} /\ work = "none" /\ fifo = <<>> /\ on = AllOn /\ card = "tran"

\* When the preload is through, what lies in memory is the disk from the sector
\* stage 1 handed over up to the one that is read next.
PreloadsTheDisk ==
    [][stdin_sector' # stdin_sector =>
         /\ DOMAIN preloaded' = 1 .. stdin_sector' - StdinSector
         /\ \A k \in DOMAIN preloaded' : preloaded'[k] = content[StdinSector + k - 1]]_vars

Calling == task \in {"read", "write"} /\ step # "idle"
Moved == step = "end" \/ (step = "tc" /\ "TC" \in status)

\* As with the SPI driver: what a read has got counts when it has all of it.
Promise == INSTANCE Disk WITH
    Sectors <- CardSectors, Values <- Blocks,
    phase <- IF ~Calling THEN "idle" ELSE IF Moved THEN "ok" ELSE "called",
    request <- wanted, result <- 0,
    memory <- IF Calling /\ task = "read" /\ ~Moved THEN CHOOSE v \in Blocks : TRUE ELSE buffer

\* A call moves one sector, all of it and no other.
HostImplementsDisk == Promise!Spec

-----------------------------------------------------------------------------
(* The inductive invariant *)

\* The sector that is read or written.
Current == IF task = "preload" THEN StdinSector + PreloadBlocks - todo ELSE wanted.sector

Quiet == status = {} /\ work = "none" /\ fifo = <<>> /\ card = "tran"

Ordered(cmd, blocks) ==
    /\ card = "tran" /\ on = AllOn
    /\ order = [cmd |-> cmd, arg |-> Current * BlockSize, blocks |-> blocks]

\* What is in the controller's buffer is what is left of the sector.
Served(n) == work = "serve" /\ Len(fifo) = n /\ \A k \in 1 .. n : fifo[k] = content[Current][BlockSize - n + k]

Reading ==
    /\ step \in {"brr", "get"} =>
         /\ task \in {"preload", "read"}
         /\ todo \in 1 .. IF task = "preload" THEN PreloadBlocks ELSE 1
         /\ Ordered(IF task = "preload" THEN "CMD18" ELSE "CMD17", todo)
    /\ step \in {"brr", "get", "end"} => "BWR" \notin status
    /\ step = "brr" =>
         /\ work \in {"command", "fetch"} => "BRR" \notin status
         /\ work \in {"command", "fetch"} \/ Served(BlockSize)
    /\ step = "get" =>
         /\ togo \in 1 .. BlockSize /\ Served(togo)
         /\ \A k \in 1 .. BlockSize - togo :
              (IF task = "preload" THEN preloaded[PreloadBlocks + 1 - todo] ELSE buffer)[k] = content[Current][k]
    /\ step = "end" =>
         /\ task \in {"preload", "read"} /\ todo = 0
         /\ work = "none" /\ fifo = <<>> /\ card = "tran" /\ on = AllOn
         /\ task = "read" => buffer = content[wanted.sector]

\* The blocks that are in memory.
Preloading ==
    task = "preload" /\ step # "idle" =>
        /\ stdin_sector = StdinSector
        /\ step # "start" => \A k \in 1 .. PreloadBlocks - todo : preloaded[k] = content[StdinSector + k - 1]

Writing ==
    /\ step \in {"bwr", "put", "tc"} => task = "write" /\ Ordered("CMD24", 1)
    /\ step \in {"bwr", "put"} => "TC" \notin status
    /\ step = "bwr" =>
         \/ work \in {"command", "room"} /\ "BWR" \notin status
         \/ work = "take" /\ fifo = <<>>
    /\ step = "put" =>
         /\ togo \in 1 .. BlockSize
         /\ work = "take" /\ Len(fifo) = BlockSize - togo
         /\ \A k \in 1 .. BlockSize - togo : fifo[k] = buffer[k]
    /\ step = "tc" =>
         IF "TC" \in status THEN work = "none" /\ fifo = <<>> ELSE work = "program" /\ fifo = buffer

\* The card's state before each of the commands, and behind the last one.
Along == <<"tran", "idle", "idle", "idle", "ready", "ident", "stby", "tran", "tran">>

Initialising ==
    /\ step = "clock" => task = "reinit" /\ Quiet /\ on \in {{"starting"}, {"clock"}}
    /\ task = "reinit" /\ step = "start" =>
         /\ todo \in 1 .. Len(InitCommands)
         /\ status = {} /\ work = "none" /\ fifo = <<>> /\ on = AllOn
         /\ card = Along[todo]
         /\ todo = 4 => app
         /\ todo = 7 => response = RCA
    /\ step = "cc" =>
         /\ task = "reinit" /\ todo \in 1 .. Len(InitCommands)
         /\ order.cmd = InitCommands[todo] /\ fifo = <<>> /\ on = AllOn
         /\ IF "CC" \in status
            THEN /\ work = "none" /\ card = Along[todo + 1]
                 /\ todo = 3 => app
                 /\ todo = 6 => response = RCA
            ELSE /\ work = "command" /\ card = Along[todo]
                 /\ todo = 4 => app
                 /\ todo = 7 => order.arg = RCA

\* A call is what is wanted, and begins with the controller at rest.
AtRest ==
    /\ task \in {"read", "write"} => wanted.op = task
    /\ step = "idle" => Quiet /\ on = AllOn
    /\ step = "start" /\ task # "reinit" => Quiet /\ on = AllOn

IInv == TypeOK /\ AtRest /\ Reading /\ Preloading /\ Writing /\ Initialising
=============================================================================
