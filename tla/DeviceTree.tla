----------------------------- MODULE DeviceTree -----------------------------
(***************************************************************************)
(* How stage 2 finds its disk.  The device tree comes as a sequence of     *)
(* tokens, and fdt_find_storage walks it once, without a stack: it keeps   *)
(* the kind and the address of the node that began last, the address of an *)
(* SPI controller, and whether a card was seen.  What nodes contain which  *)
(* is in the order of the tokens only.                                     *)
(***************************************************************************)
EXTENDS Naturals, SequencesExt

CONSTANTS
    Device            \* what answers at an address: a function; "block" is a disk

(* A node of a board: its name, the address in its reg property (0: it has *)
(* none), and the names of its children, whose reg is 0.                   *)
Names == {"virtio", "spi", "mmc", "other"}
Nodes == [name : Names, reg : DOMAIN Device \cup {0}, children : SUBSET Names]

-----------------------------------------------------------------------------
(* The tokens of a board *)

Begin(name) == [token |-> "begin", name |-> name]
Reg(a) == [token |-> "reg", address |-> a]
Other == [token |-> "prop"]
End == [token |-> "end"]

RegOf(n) == IF n.reg = 0 THEN <<>> ELSE <<Reg(n.reg)>>
Child(name) == <<Begin(name), Reg(0), Other, End>>
NodeTokens(n) ==
    <<Begin(n.name), Other>> \o RegOf(n)
      \o FlattenSeq([i \in 1 .. Len(SetToSeq(n.children)) |-> Child(SetToSeq(n.children)[i])])
      \o <<End>>

\* All devices are below one node.
Tokens(board) ==
    <<Begin("other")>> \o FlattenSeq([i \in 1 .. Len(board) |-> NodeTokens(board[i])]) \o <<End>>

-----------------------------------------------------------------------------
(* fdt_find_storage: s4, s5, s10, s11, and the address it returns early with *)

NotFound == [kind |-> "none", base |-> 0]
Start == [type |-> "none", reg |-> 0, spi |-> 0, mmc |-> FALSE, disk |-> 0]

\* Mutant: a node begins with what the one before has left.
AsBefore(w, name) ==
    [w EXCEPT !.type = IF name \in {"virtio", "spi"} THEN name ELSE @,
              !.mmc = @ \/ (name = "mmc" /\ w.spi # 0)]

BeginNode(w, name) ==
    [w EXCEPT !.type = IF name \in {"virtio", "spi"} THEN name ELSE "none",
              !.reg = 0,
              !.mmc = @ \/ (name = "mmc" /\ w.spi # 0)]

\* A VirtIO node is asked what it is when it ends.
EndNode(w) ==
    CASE w.type = "virtio" /\ w.reg # 0 /\ Device[w.reg] = "block" -> [w EXCEPT !.disk = w.reg]
      [] w.type = "spi" /\ w.reg # 0 -> [w EXCEPT !.spi = w.reg]
      [] OTHER -> w

\* The base of an SPI controller has to be there before its children.
RegProperty(w, a) ==
    CASE w.type = "none" -> w
      [] w.type = "virtio" -> [w EXCEPT !.reg = a]
      [] w.type = "spi" -> [w EXCEPT !.reg = a, !.spi = a]

Walk(w, t) ==
    IF w.disk # 0 THEN w
    ELSE CASE t.token = "begin" -> BeginNode(w, t.name)
           [] t.token = "reg" -> RegProperty(w, t.address)
           [] t.token = "end" -> EndNode(w)
           [] OTHER -> w

\* A null pointer, or memory without the magic number, is no token at all.
fdt_find_storage(tokens) ==
    LET walked[i \in 0 .. Len(tokens)] == IF i = 0 THEN Start ELSE Walk(walked[i - 1], tokens[i])
        w == walked[Len(tokens)]
    IN  IF w.disk # 0 THEN [kind |-> "virtio", base |-> w.disk]
        ELSE IF w.mmc /\ w.spi # 0 THEN [kind |-> "spi_sd", base |-> w.spi]
        ELSE NotFound

-----------------------------------------------------------------------------
(* What a board has, by its nodes and not by its tokens *)

Disks(board) ==
    {i \in DOMAIN board : /\ board[i].name = "virtio" /\ board[i].reg # 0
                          /\ Device[board[i].reg] = "block"}

Cards(board) ==
    {i \in DOMAIN board : /\ board[i].name = "spi" /\ board[i].reg # 0
                          /\ "mmc" \in board[i].children}

\* The first disk; without one, the controller a card is below.
Storage(board) ==
    IF Disks(board) # {} THEN [kind |-> "virtio", base |-> board[Min(Disks(board))].reg]
    ELSE IF Cards(board) # {} THEN [kind |-> "spi_sd", base |-> board[Min(Cards(board))].reg]
    ELSE NotFound

(* The boards a walk without a stack understands: a VirtIO node has no     *)
(* children, the controller with the card is the last one, and a card that *)
(* is below no SPI controller is not behind one.                           *)
Understood(board) ==
    /\ \A i \in DOMAIN board :
         /\ board[i].name = "virtio" => board[i].children = {}
         /\ "spi" \notin board[i].children /\ "virtio" \notin board[i].children
    /\ \A i \in Cards(board), j \in DOMAIN board :
         j > i => board[j].name # "spi" \/ board[j].reg = 0
    /\ \A i, j \in DOMAIN board :
         /\ i < j /\ board[i].name = "spi" /\ board[i].reg # 0
         => /\ board[j].name # "mmc"
            /\ "mmc" \in board[j].children => board[j].name = "spi" /\ board[j].reg # 0
=============================================================================
