------------------------------ MODULE MCStorage ------------------------------
(* Small instances of Storage: many boards, and three on which the drivers run. *)
EXTENDS Storage, TLC

\* A disk and another VirtIO device, and two SPI controllers.
MCDevice == 1 :> "block" @@ 2 :> "net" @@ 3 :> "spi" @@ 4 :> "spi" @@ 5 :> "block"

Node(n, a, c) == [name |-> n, reg |-> a, children |-> c]

DiskNode == Node("virtio", 1, {})
CardNode == Node("spi", 3, {"mmc"})

MCNodes == {DiskNode, Node("virtio", 2, {}), Node("virtio", 5, {}), Node("virtio", 0, {}),
            CardNode, Node("spi", 4, {"other"}), Node("spi", 4, {"mmc", "other"}),
            Node("spi", 0, {"mmc"}), Node("mmc", 4, {}), Node("other", 4, {"mmc"})}

MCBoards == UNION {[1 .. n -> MCNodes] : n \in 0 .. 3}

\* A driver that nothing is asked of.
NoRequest == [op |-> "read", sector |-> 0]
VirtioAtRest ==
    /\ header = NoRequest /\ avail_idx = 0
    /\ memory = CHOOSE v \in Values : TRUE
    /\ content = [s \in Sectors |-> memory]
CardAtRest ==
    /\ asked = NoRequest
    /\ buffer = CHOOSE v \in Card!Blocks : TRUE
    /\ blocks = [s \in CardSectors |-> buffer]

HostAtRest ==
    /\ wanted = NoRequest
    /\ window = CHOOSE v \in Card!Blocks : TRUE
    /\ preloaded = [k \in 1 .. PreloadBlocks |-> window]
    /\ sectors = [s \in CardSectors |-> window]
\* Two sectors that differ: the driver does not look at what it moves.
HostAtWork ==
    /\ wanted = NoRequest
    /\ window = CHOOSE v \in Card!Blocks : TRUE
    /\ preloaded = [k \in 1 .. PreloadBlocks |-> window]
    /\ sectors = [s \in CardSectors |-> [i \in 1 .. BlockSize |-> IF i = s THEN Card!Token ELSE 0]]

\* The other boards are for finding the device: there is one state of it.
MCInit ==
    \/ boot = "find" /\ VirtioAtRest /\ CardAtRest /\ HostAtRest /\ StorageInit
    \/ boot = "find" /\ board = <<DiskNode>> /\ CardAtRest /\ HostAtRest /\ StorageInit
    \/ boot = "find" /\ board = <<CardNode>> /\ VirtioAtRest /\ HostAtRest /\ StorageInit
    \/ boot = "sdhci" /\ VirtioAtRest /\ CardAtRest /\ HostAtWork /\ StorageInit

MCSpec ==
    /\ MCInit /\ [][StorageNext]_all
    /\ WF_all(VirtioRuns) /\ WF_all(DeviceRuns) /\ WF_all(CardRuns)
    /\ WF_all(HostRuns) /\ WF_all(ControllerRuns)
=============================================================================
