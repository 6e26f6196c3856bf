------------------------------- MODULE Storage -------------------------------
(***************************************************************************)
(* Stage 2's disk: the device tree says which driver the kernel gets, the  *)
(* pointers disk_read_fn and disk_write_fn lead to it from then on, and a  *)
(* board without storage halts.  The Raspberry Pi is not asked: stage 1    *)
(* says that it is one, and that its controller is in use.                 *)
(***************************************************************************)
EXTENDS Virtio, SdConstants, Sequences

CONSTANTS
    Boards,           \* what the device tree may describe
    MmioDevice        \* what answers at an address

VARIABLES
    board,            \* what the device tree describes; <<>> when it is done with
    found,            \* what fdt_find_storage returned
    boot,             \* "find", "dispatch", and then the driver in use or "halted"
    \* the SPI driver and its card
    at, left, asked, buffer, answer,
    mode, count, addressed, latch, blocks,
    \* the SD host controller, its driver and its card
    task, step, todo, togo, wanted, window, preloaded, stdin_sector,
    bits, on, order, response, doing, fifo, card, app, sectors

booting == <<board, found, boot>>
sd == <<at, left, asked, buffer, answer, mode, count, addressed, latch, blocks>>
hc == <<task, step, todo, togo, wanted, window, preloaded, stdin_sector,
        bits, on, order, response, doing, fifo, card, app, sectors>>

Tree == INSTANCE DeviceTree WITH Device <- MmioDevice
ASSUME BoardsAssumption == Boards \subseteq Seq(Tree!Nodes)

Card == INSTANCE SdCard WITH
    request <- asked, memory <- buffer, result <- answer, content <- blocks
Host == INSTANCE Sdhci WITH
    buffer <- window, status <- bits, work <- doing, content <- sectors

\* Stage 1 leaves whatever device there is ready for use.
StorageInit ==
    /\ \/ boot = "find" /\ board \in Boards
       \/ boot = "sdhci" /\ board = <<>>
    /\ found = Tree!NotFound
    /\ Init
    /\ Card!Init
    /\ Host!Init

Find ==
    /\ boot = "find"
    /\ boot' = "dispatch"
    /\ found' = Tree!fdt_find_storage(Tree!Tokens(board))
    /\ UNCHANGED <<board, vars, sd, hc>>

\* The tree is not looked at again.
Dispatch ==
    /\ boot = "dispatch"
    /\ boot' = IF found.kind = "none" THEN "halted" ELSE found.kind
    /\ board' = <<>>
    /\ UNCHANGED <<found, vars, sd, hc>>

\* The drivers' calls, by the pointers.
OnVirtio == boot = "virtio" /\ Next /\ UNCHANGED <<booting, sd, hc>>
OnCard == boot = "spi_sd" /\ Card!Next /\ UNCHANGED <<booting, vars, hc>>
OnHost == boot = "sdhci" /\ Host!Next /\ UNCHANGED <<booting, vars, sd>>

StorageNext == Find \/ Dispatch \/ OnVirtio \/ OnCard \/ OnHost

all == <<booting, vars, sd, hc>>

VirtioRuns == OnVirtio /\ Driver /\ pc # "idle"
DeviceRuns == OnVirtio /\ Device
CardRuns == OnCard /\ Card!Driver
HostRuns == OnHost /\ Host!Driver
ControllerRuns == OnHost /\ Host!Controller

(* The one processor goes on until a call is done, a device works on what  *)
(* it was given, and a card that is read or written comes to an end with   *)
(* it.  Calls come when they come.                                         *)
StorageSpec ==
    /\ StorageInit /\ [][StorageNext]_all
    /\ WF_all(VirtioRuns) /\ WF_all(DeviceRuns) /\ WF_all(CardRuns)
    /\ WF_all(HostRuns) /\ WF_all(ControllerRuns)

-----------------------------------------------------------------------------
(* Properties *)

\* The variables of the drivers and their devices keep their types: VirtIO's
\* indexes stay indexes, the SPI driver gives up a command that is not
\* answered after eight bytes, the controller takes only what it knows.
StorageTypeOK == TypeOK /\ Card!TypeOK /\ Host!TypeOK

\* On every board a walk without a stack can understand, fdt_find_storage
\* finds the device its nodes describe.
FindsTheDevice ==
    boot = "dispatch" /\ Tree!Understood(board) => found = Tree!Storage(board)

\* The SPI driver and the card agree on what every byte is.
InStep == Card!InStep

\* A call of the SPI driver moves one sector, all of it and no other.
CardImplementsDisk == Card!CardImplementsDisk

\* Taking over the VirtIO device and every call of its driver come to an end.
Returns == boot = "virtio" /\ pc # "idle" ~> pc = "idle"

\* So does every call of the SPI driver, however late the card is: none waits
\* for a byte that went by before.
CardReturns == at # "idle" ~> at = "idle"

\* Driver and controller use the data port in turn, and a call leaves nothing
\* of itself behind in the controller.
InTurn == Host!InTurn

\* The preload is the disk, and so is what is read behind it.
PreloadsTheDisk == Host!PreloadsTheDisk

\* A call of the SDHCI driver moves one sector, all of it and no other,
\* before, between and after initialisations of the card.
HostImplementsDisk == Host!HostImplementsDisk

\* The preload, the initialisation and every call come to an end: none waits
\* for a bit that it has cleared, or for a command the card does not take.
HostReturns == boot = "sdhci" /\ step # "idle" ~> step = "idle"
=============================================================================
