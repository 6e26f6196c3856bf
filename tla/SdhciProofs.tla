---------------------------- MODULE SdhciProofs ----------------------------
(***************************************************************************)
(* The driver of the SD host controller uses the data port in turn, its    *)
(* preload is the disk, and with the controller and the card it implements *)
(* Disk: for every size of a sector and of the preload, and wherever       *)
(* standard input begins.                                                  *)
(***************************************************************************)
EXTENDS Sdhci, SequenceTheorems, TLAPS

LEMMA Numbers ==
    /\ BlockSize \in Nat \ {0} /\ AddressSpace \in Nat \ {0}
    /\ StdinSector \in Nat /\ PreloadBlocks \in Nat \ {0}
  BY SdAssumption, PreloadAssumption

LEMMA Quotient ==
    ASSUME NEW s \in Nat, NEW b \in Nat \ {0}
    PROVE  s * b \in Nat /\ (s * b) \div b = s /\ s * b + b = (s + 1) * b
  OBVIOUS

LEMMA Fits ==
    ASSUME NEW a \in Nat, NEW b \in Nat \ {0}, NEW s \in 0 .. (a \div b) - 1
    PROVE  s \in Nat /\ s * b < a
  OBVIOUS

\* The address of a sector is the address of that sector: no bit of it is lost.
LEMMA AddressOfSector ==
    ASSUME NEW s \in CardSectors
    PROVE  /\ s \in Nat /\ s * BlockSize \in 0 .. AddressSpace
           /\ Address(s) = s * BlockSize /\ (s * BlockSize) \div BlockSize = s
           /\ s * BlockSize + BlockSize = (s + 1) * BlockSize
  <1>1. s \in Nat /\ s * BlockSize < AddressSpace
    BY Numbers, Fits DEF CardSectors
  <1>2. /\ s * BlockSize \in Nat /\ (s * BlockSize) \div BlockSize = s
        /\ s * BlockSize + BlockSize = (s + 1) * BlockSize
    BY <1>1, Numbers, Quotient
  <1> QED
    BY <1>1, <1>2, Numbers DEF Address

\* What is preloaded is on the card.
LEMMA PreloadOnCard ==
    ASSUME NEW n \in 1 .. PreloadBlocks
    PROVE  StdinSector + PreloadBlocks - n \in CardSectors
  <1>1. AddressSpace \div BlockSize \in Nat
    BY Numbers
  <1> QED
    BY <1>1, Numbers, PreloadAssumption DEF CardSectors

\* A block is a sequence of its words.
LEMMA BlockIsSequence ==
    ASSUME NEW b \in Blocks
    PROVE  b \in Seq(Bytes) /\ Len(b) = BlockSize /\ DOMAIN b = 1 .. BlockSize
  BY Numbers, SeqDef, LenProperties DEF Blocks

LEMMA Commands ==
    /\ Len(InitCommands) = 8
    /\ InitCommands[1] = "CMD0" /\ InitCommands[2] = "CMD8" /\ InitCommands[3] = "CMD55"
    /\ InitCommands[4] = "ACMD41" /\ InitCommands[5] = "CMD2" /\ InitCommands[6] = "CMD3"
    /\ InitCommands[7] = "CMD7" /\ InitCommands[8] = "CMD16"
  BY DEF InitCommands

LEMMA States ==
    /\ Along[1] = "tran" /\ Along[2] = "idle" /\ Along[3] = "idle" /\ Along[4] = "idle"
    /\ Along[5] = "ready" /\ Along[6] = "ident" /\ Along[7] = "stby" /\ Along[8] = "tran"
    /\ Along[9] = "tran"
  BY DEF Along

LEMMA KnownCommands ==
    DOMAIN Takes = {"CMD0", "CMD8", "CMD55", "ACMD41", "CMD2", "CMD3", "CMD7", "CMD16", "CMD17",
                    "CMD18", "CMD24"}
  BY DEF Takes

LEMMA CardStates == Takes["CMD0"] = {"idle", "ready", "ident", "stby", "tran"}
  BY DEF Takes

LEMMA Afterwards ==
    /\ Behind["CMD0"] = "idle" /\ Behind["CMD8"] = "idle" /\ Behind["CMD55"] = card
    /\ Behind["ACMD41"] = "ready" /\ Behind["CMD2"] = "ident" /\ Behind["CMD3"] = "stby"
    /\ Behind["CMD7"] = "tran" /\ Behind["CMD16"] = "tran" /\ Behind["CMD17"] = "tran"
    /\ Behind["CMD18"] = "tran" /\ Behind["CMD24"] = "tran"
  BY DEF Behind

LEMMA EmptyQueue == <<>> \in Seq(Bytes) /\ Len(<<>>) = 0
  OBVIOUS

LEMMA NonEmptyQueue ==
    ASSUME NEW q \in Seq(Bytes), q # <<>>
    PROVE  /\ Head(q) = q[1] /\ Tail(q) \in Seq(Bytes) /\ Len(Tail(q)) = Len(q) - 1
           /\ \A k \in 1 .. Len(q) - 1 : Tail(q)[k] = q[k + 1]
  BY HeadTailProperties

LEMMA QueuedUp ==
    ASSUME NEW q \in Seq(Bytes), NEW w \in Bytes
    PROVE  /\ Append(q, w) \in Seq(Bytes) /\ Len(Append(q, w)) = Len(q) + 1
           /\ \A k \in 1 .. Len(q) : Append(q, w)[k] = q[k]
           /\ Append(q, w)[Len(q) + 1] = w
  BY AppendProperties
-----------------------------------------------------------------------------
\* What the controller works on says where the driver is.
LEMMA AtWork ==
    ASSUME IInv
    PROVE  /\ work = "command" => step \in {"brr", "bwr", "cc"} /\ (step = "cc" => "CC" \notin status)
           /\ work = "fetch" => step = "brr"
           /\ work = "room" => step = "bwr"
           /\ work = "program" => step = "tc" /\ "TC" \notin status /\ fifo = buffer
           /\ on = {"starting"} => step = "clock"
  <1> USE DEF IInv, TypeOK
  <1>1. step = "brr" => work \in {"command", "fetch", "serve"} /\ on = AllOn
    BY DEF Reading, Ordered, Served
  <1>2. step = "get" => work = "serve" /\ on = AllOn
    BY DEF Reading, Ordered, Served
  <1>3. step = "end" => work = "none" /\ on = AllOn
    BY DEF Reading
  <1>4. step = "bwr" => work \in {"command", "room", "take"} /\ on = AllOn
    BY DEF Writing, Ordered
  <1>5. step = "put" => work = "take" /\ on = AllOn
    BY DEF Writing, Ordered
  <1>6. step = "tc" => on = AllOn /\ (work = "none" \/ (work = "program" /\ "TC" \notin status /\ fifo = buffer))
    BY DEF Writing, Ordered
  <1>7. step \in {"idle", "start"} => work = "none" /\ on = AllOn
    BY DEF AtRest, Initialising, Quiet
  <1>8. step = "clock" => work = "none"
    BY DEF Initialising, Quiet
  <1>9. step = "cc" => on = AllOn /\ (work = "none" \/ (work = "command" /\ "CC" \notin status))
    BY DEF Initialising
  <1>10. AllOn # {"starting"}
    BY DEF AllOn
  <1> QED
    BY <1>1, <1>2, <1>3, <1>4, <1>5, <1>6, <1>7, <1>8, <1>9, <1>10

\* The sector the command names is the one that is meant.
LEMMA RightSector ==
    ASSUME IInv, step \in {"brr", "get", "bwr", "put", "tc"}
    PROVE  /\ Current \in CardSectors /\ Sector = Current /\ card = "tran" /\ on = AllOn
           /\ order.arg = Current * BlockSize
  <1>1. Current \in CardSectors
    <2>1. task = "preload" => todo \in 1 .. PreloadBlocks
      BY DEF IInv, Reading, Writing
    <2>2. wanted.sector \in CardSectors
      BY DEF IInv, TypeOK, Requests
    <2> QED
      BY <2>1, <2>2, PreloadOnCard DEF Current
  <1>2. card = "tran" /\ on = AllOn /\ order.arg = Current * BlockSize
    BY DEF IInv, Reading, Writing, Ordered
  <1> QED
    BY <1>1, <1>2, AddressOfSector DEF Sector

-----------------------------------------------------------------------------

LEMMA InitInvariant == Init => IInv
  <1> SUFFICES ASSUME Init PROVE IInv
    OBVIOUS
  <1> USE Numbers DEF Init
  <1>1. TypeOK
    <2>1. order \in [cmd : DOMAIN Takes, arg : 0 .. AddressSpace, blocks : 0 .. PreloadBlocks]
      BY KnownCommands
    <2>2. card \in Takes["CMD0"] /\ fifo \in Seq(Bytes) /\ on \subseteq AllOn \cup {"starting"}
      BY CardStates, EmptyQueue
    <2>3. todo \in 0 .. PreloadBlocks \cup 0 .. Len(InitCommands) /\ togo \in 0 .. BlockSize
      BY Commands
    <2> QED
      BY <2>1, <2>2, <2>3 DEF TypeOK
  <1>2. AtRest /\ Reading /\ Writing /\ Initialising
    BY DEF AtRest, Quiet, Reading, Writing, Initialising
  <1>3. Preloading
    BY DEF Preloading
  <1> QED
    BY <1>1, <1>2, <1>3 DEF IInv

LEMMA CallInvariant ==
    ASSUME IInv, NEW r \in Requests, NEW v \in Blocks, Call(r, v)
    PROVE  IInv'
  <1> USE DEF IInv, Call, host, sdcard
  <1>1. TypeOK'
    BY DEF TypeOK, Requests
  <1>2. AtRest' /\ Initialising'
    BY DEF AtRest, Quiet, Initialising, Requests
  <1>3. Reading' /\ Preloading' /\ Writing'
    BY DEF Reading, Preloading, Writing, Requests
  <1> QED
    BY <1>1, <1>2, <1>3

LEMMA StartReadInvariant == IInv /\ StartRead => IInv'
  <1> SUFFICES ASSUME IInv, StartRead PROVE IInv'
    OBVIOUS
  <1> USE Numbers DEF IInv
  <1>1. wanted.sector \in CardSectors
    BY DEF TypeOK, Requests
  <1>2. /\ order' = [cmd |-> "CMD17", arg |-> wanted.sector * BlockSize, blocks |-> 1]
        /\ order'.arg \in 0 .. AddressSpace
    BY <1>1, AddressOfSector DEF StartRead, Issue
  <1>3. status = {} /\ fifo = <<>> /\ card = "tran" /\ on = AllOn
    BY DEF StartRead, AtRest, Quiet
  <1>4. /\ task = "read" /\ step' = "brr" /\ todo' = 1 /\ status' = {} /\ work' = "command"
        /\ UNCHANGED <<task, togo, wanted, buffer, preloaded, stdin_sector, on, response, fifo, sdcard>>
    BY <1>3 DEF StartRead, Issue
  <1>5. TypeOK'
    BY <1>2, <1>4, KnownCommands DEF TypeOK, sdcard
  <1>6. Reading'
    BY <1>2, <1>3, <1>4 DEF Reading, Ordered, Current, sdcard
  <1>7. AtRest' /\ Preloading' /\ Writing' /\ Initialising'
    BY <1>4 DEF AtRest, Preloading, Writing, Initialising
  <1> QED
    BY <1>5, <1>6, <1>7

LEMMA StartPreloadInvariant == IInv /\ StartPreload => IInv'
  <1> SUFFICES ASSUME IInv, StartPreload PROVE IInv'
    OBVIOUS
  <1> USE Numbers DEF IInv
  <1>1. stdin_sector = StdinSector /\ StdinSector \in CardSectors
    <2>1. StdinSector + PreloadBlocks - PreloadBlocks \in CardSectors
      BY PreloadOnCard
    <2> QED
      BY <2>1 DEF StartPreload, Preloading
  <1>2. /\ order' = [cmd |-> "CMD18", arg |-> StdinSector * BlockSize, blocks |-> PreloadBlocks]
        /\ order'.arg \in 0 .. AddressSpace
    BY <1>1, AddressOfSector DEF StartPreload, Issue
  <1>3. fifo = <<>> /\ card = "tran" /\ on = AllOn
    BY DEF StartPreload, AtRest, Quiet
  <1>4. /\ task = "preload" /\ step' = "brr" /\ todo' = PreloadBlocks /\ status' = {} /\ work' = "command"
        /\ UNCHANGED <<task, togo, wanted, buffer, preloaded, stdin_sector, on, response, fifo, sdcard>>
    BY <1>3 DEF StartPreload, Issue
  <1>5. TypeOK'
    BY <1>2, <1>4, KnownCommands DEF TypeOK, sdcard
  <1>6. Reading'
    <2>1. Current' = StdinSector
      BY <1>4 DEF Current
    <2> QED
      BY <1>2, <1>3, <1>4, <2>1 DEF Reading, Ordered, sdcard
  <1>7. Preloading'
    BY <1>1, <1>4 DEF Preloading
  <1>8. AtRest' /\ Writing' /\ Initialising'
    BY <1>4 DEF AtRest, Writing, Initialising
  <1> QED
    BY <1>5, <1>6, <1>7, <1>8

LEMMA WaitReadInvariant == IInv /\ WaitRead => IInv'
  <1> SUFFICES ASSUME IInv, WaitRead PROVE IInv'
    OBVIOUS
  <1> USE Numbers DEF IInv, WaitRead, host, sdcard
  <1>1. TypeOK'
    BY DEF TypeOK
  <1>2. Reading'
    BY DEF Reading, Ordered, Served, Current
  <1>3. AtRest' /\ Preloading' /\ Writing' /\ Initialising'
    BY DEF AtRest, Preloading, Writing, Initialising, Reading
  <1> QED
    BY <1>1, <1>2, <1>3

\* The word w is the next one of the sector, and the controller's buffer holds
\* what is left of it, or all of the sector behind it.
ServedOn(w) ==
    /\ w = content[Current][Index] /\ Index \in 1 .. BlockSize
    /\ togo > 1 =>
         /\ UNCHANGED <<order, work, status>>
         /\ fifo' \in Seq(Bytes) /\ Len(fifo') = togo - 1
         /\ \A k \in 1 .. togo - 1 : fifo'[k] = content[Current][BlockSize - (togo - 1) + k]
    /\ togo = 1 /\ todo > 1 =>
         /\ order' = [order EXCEPT !.arg = @ + BlockSize, !.blocks = @ - 1]
         /\ fifo' = content[Current + 1]
         /\ status' = status \cup {"BRR"} /\ work' = "serve"
    /\ togo = 1 /\ todo = 1 =>
         fifo' = <<>> /\ work' = "none" /\ status' = status \cup {"TC"} /\ order' = order

\* That is what the data port gives.
LEMMA WordRead ==
    ASSUME IInv, step = "get", NEW w \in Bytes, PortRead(w)
    PROVE  ServedOn(w)
  <1> USE Numbers
  <1>1. /\ work = "serve" /\ Len(fifo) = togo /\ togo \in 1 .. BlockSize /\ todo \in Nat \ {0}
        /\ \A k \in 1 .. togo : fifo[k] = content[Current][BlockSize - togo + k]
        /\ order.blocks = todo /\ fifo \in Seq(Bytes)
    <2>1. fifo \in Seq(Bytes)
      BY DEF IInv, TypeOK
    <2>2. Served(togo) /\ togo \in 1 .. BlockSize /\ todo \in Nat \ {0} /\ order.blocks = todo
      BY DEF IInv, Reading, Ordered
    <2> QED
      BY <2>1, <2>2 DEF Served
  <1>2. fifo # <<>>
    BY <1>1
  <1>3. /\ Head(fifo) = fifo[1] /\ Tail(fifo) \in Seq(Bytes) /\ Len(Tail(fifo)) = togo - 1
        /\ \A k \in 1 .. togo - 1 : Tail(fifo)[k] = fifo[k + 1]
    BY <1>1, <1>2, NonEmptyQueue
  <1>4. w = content[Current][Index] /\ Index \in 1 .. BlockSize
    <2>1. Index = BlockSize - togo + 1 /\ Index \in 1 .. BlockSize
      BY <1>1 DEF Index
    <2>2. w = fifo[1]
      BY <1>1, <1>3 DEF PortRead
    <2> QED
      BY <1>1, <2>1, <2>2
  <1>5. CASE togo > 1
    <2>1. fifo' = Tail(fifo) /\ UNCHANGED <<order, work, status>>
      BY <1>1, <1>5 DEF PortRead
    <2>2. \A k \in 1 .. togo - 1 : fifo'[k] = content[Current][BlockSize - (togo - 1) + k]
      BY <1>1, <1>3, <2>1
    <2> QED
      BY <1>1, <1>3, <1>4, <1>5, <2>1, <2>2 DEF ServedOn
  <1>6. CASE togo = 1
    <2>1. Sector = Current
      BY RightSector
    <2> QED
      BY <1>1, <1>4, <1>6, <2>1 DEF PortRead, ServedOn
  <1> QED
    BY <1>1, <1>5, <1>6

\* The words up to this one are in their places.
Stored ==
    /\ buffer' \in Blocks /\ preloaded' \in [1 .. PreloadBlocks -> Blocks]
    /\ \A k \in 1 .. Index :
         (IF task = "preload" THEN preloaded'[PreloadBlocks + 1 - todo] ELSE buffer')[k] = content[Current][k]
    /\ task = "preload" => \A n \in 1 .. PreloadBlocks - todo : preloaded'[n] = preloaded[n]

\* That is what storing it does.
LEMMA WordStored ==
    ASSUME IInv, step = "get", Index \in 1 .. BlockSize, NEW w \in Bytes, w = content[Current][Index],
           IF task = "preload"
           THEN preloaded' = [preloaded EXCEPT ![PreloadBlocks + 1 - todo][Index] = w] /\ UNCHANGED buffer
           ELSE buffer' = [buffer EXCEPT ![Index] = w] /\ UNCHANGED preloaded
    PROVE  Stored
  <1> USE Numbers
  <1>1. /\ task \in {"preload", "read"} /\ todo \in 1 .. IF task = "preload" THEN PreloadBlocks ELSE 1
        /\ togo \in 1 .. BlockSize
        /\ \A k \in 1 .. BlockSize - togo :
             (IF task = "preload" THEN preloaded[PreloadBlocks + 1 - todo] ELSE buffer)[k] = content[Current][k]
    BY DEF IInv, Reading
  <1>2. buffer \in Blocks /\ preloaded \in [1 .. PreloadBlocks -> Blocks]
    BY DEF IInv, TypeOK
  <1>3. \A k \in 1 .. Index : k = Index \/ k \in 1 .. BlockSize - togo
    BY <1>1 DEF Index
  <1>4. CASE task = "read"
    <2>1. buffer' = [buffer EXCEPT ![Index] = w] /\ preloaded' = preloaded
      BY <1>4
    <2>2. buffer' \in Blocks
      BY <1>2, <2>1 DEF Blocks
    <2>3. \A k \in 1 .. Index : buffer'[k] = content[Current][k]
      <3>1. \A k \in 1 .. BlockSize - togo : buffer[k] = content[Current][k]
        BY <1>1, <1>4
      <3>2. \A k \in 1 .. BlockSize : buffer'[k] = IF k = Index THEN w ELSE buffer[k]
        BY <1>2, <2>1 DEF Blocks
      <3>3. 1 .. Index \subseteq 1 .. BlockSize
        BY <1>1 DEF Index
      <3> QED
        BY <1>3, <3>1, <3>2, <3>3
    <2> QED
      BY <1>2, <1>4, <2>1, <2>2, <2>3 DEF Stored
  <1>5. CASE task = "preload"
    <2> DEFINE n == PreloadBlocks + 1 - todo
    <2>1. n \in 1 .. PreloadBlocks /\ preloaded[n] \in Blocks
      BY <1>1, <1>2, <1>5
    <2>2. preloaded' = [preloaded EXCEPT ![n] = [preloaded[n] EXCEPT ![Index] = w]]
      BY <1>5
    <2>3. [preloaded[n] EXCEPT ![Index] = w] \in Blocks
      BY <2>1 DEF Blocks
    <2>4. preloaded'[n] = [preloaded[n] EXCEPT ![Index] = w] /\ preloaded' \in [1 .. PreloadBlocks -> Blocks]
      BY <1>2, <2>1, <2>2, <2>3
    <2>5. \A k \in 1 .. Index : preloaded'[n][k] = content[Current][k]
      BY <1>1, <1>3, <1>5, <2>1, <2>4 DEF Blocks
    <2>6. \A m \in 1 .. PreloadBlocks - todo : preloaded'[m] = preloaded[m]
      BY <1>1, <1>2, <1>5, <2>2
    <2> QED
      BY <1>2, <1>5, <2>4, <2>5, <2>6 DEF Stored
  <1> QED
    BY <1>1, <1>4, <1>5

LEMMA ReadWordInvariant == IInv /\ ReadWord => IInv'
  <1> SUFFICES ASSUME IInv, ReadWord PROVE IInv'
    OBVIOUS
  <1> USE Numbers, EmptyQueue DEF IInv, ServedOn, Stored
  <1>1. PICK w \in Bytes :
          /\ PortRead(w)
          /\ IF task = "preload"
             THEN preloaded' = [preloaded EXCEPT ![PreloadBlocks + 1 - todo][Index] = w] /\ UNCHANGED buffer
             ELSE buffer' = [buffer EXCEPT ![Index] = w] /\ UNCHANGED preloaded
    BY DEF ReadWord
  <1>2. /\ step = "get" /\ task \in {"preload", "read"} /\ togo \in 1 .. BlockSize
        /\ todo \in 1 .. (IF task = "preload" THEN PreloadBlocks ELSE 1)
        /\ work = "serve" /\ "BWR" \notin status
        /\ order = [cmd |-> IF task = "preload" THEN "CMD18" ELSE "CMD17",
                    arg |-> Current * BlockSize, blocks |-> todo]
    BY DEF ReadWord, Reading, Ordered, Served
  <1>3. /\ Current \in CardSectors /\ card = "tran" /\ on = AllOn
        /\ content[Current] \in Seq(Bytes) /\ Len(content[Current]) = BlockSize
    BY <1>2, RightSector, BlockIsSequence DEF TypeOK
  <1>4. ServedOn(w)
    BY <1>1, <1>2, WordRead
  <1>5. Stored
    BY <1>1, <1>2, <1>4, WordStored
  <1>6. /\ togo' = togo - 1 /\ UNCHANGED <<task, wanted, stdin_sector, on, response, card, app, content>>
        /\ togo > 1 => UNCHANGED <<step, todo>>
        /\ togo = 1 => todo' = todo - 1 /\ step' = IF todo > 1 THEN "brr" ELSE "end"
    BY <1>2 DEF ReadWord, sdcard
  <1>7. CASE togo > 1
    <2>1. TypeOK'
      BY <1>2, <1>4, <1>5, <1>6, <1>7 DEF TypeOK
    <2>2. Current' = Current /\ Index = BlockSize - togo'
      BY <1>2, <1>6, <1>7 DEF Current, Index
    <2>3. Reading'
      BY <1>2, <1>3, <1>4, <1>5, <1>6, <1>7, <2>2 DEF Reading, Ordered, Served
    <2>4. Preloading'
      BY <1>2, <1>5, <1>6, <1>7 DEF Preloading
    <2>5. AtRest' /\ Writing' /\ Initialising'
      BY <1>2, <1>6, <1>7 DEF AtRest, Writing, Initialising
    <2> QED
      BY <2>1, <2>3, <2>4, <2>5
  <1>8. CASE togo = 1
    <2>1. Index = BlockSize
      BY <1>2, <1>8 DEF Index
    <2>2. task = "preload" => Preloading'
      <3> SUFFICES ASSUME task = "preload", NEW k \in 1 .. PreloadBlocks - todo'
                   PROVE  preloaded'[k] = content[StdinSector + k - 1]
        BY <1>2, <1>6 DEF Preloading, ReadWord
      <3>1. CASE k \in 1 .. PreloadBlocks - todo
        BY <1>2, <1>5, <1>6, <1>8, <3>1 DEF Preloading
      <3>2. CASE k = PreloadBlocks + 1 - todo
        <4>1. Current = StdinSector + k - 1
          BY <1>2, <3>2 DEF Current
        <4>2. preloaded'[k] \in Blocks /\ content[Current] \in Blocks
          BY <1>2, <1>3, <1>5, <3>2 DEF TypeOK
        <4>3. \A i \in 1 .. BlockSize : preloaded'[k][i] = content[Current][i]
          BY <1>5, <2>1, <3>2
        <4> QED
          BY <4>1, <4>2, <4>3 DEF Blocks
      <3> QED
        BY <1>2, <1>6, <1>8, <3>1, <3>2
    <2>3. Preloading'
      BY <1>6, <2>2 DEF Preloading
    <2>4. CASE todo > 1
      <3>1. task = "preload" /\ step' = "brr" /\ todo' = todo - 1 /\ Current' = Current + 1
        BY <1>2, <1>6, <1>8, <2>4 DEF Current
      <3>2. todo' \in 1 .. PreloadBlocks /\ Current' \in CardSectors
        <4>1. todo - 1 \in 1 .. PreloadBlocks
          BY <1>2, <2>4, <3>1
        <4> QED
          BY <1>6, <3>1, <4>1, PreloadOnCard DEF Current
      <3>3. order' = [cmd |-> "CMD18", arg |-> Current' * BlockSize, blocks |-> todo']
        BY <1>2, <1>3, <1>4, <1>8, <2>4, <3>1, AddressOfSector
      <3>4. Current' * BlockSize \in 0 .. AddressSpace
        BY <3>2, AddressOfSector
      <3>5. fifo' \in Seq(Bytes) /\ Len(fifo') = BlockSize /\ fifo' = content'[Current']
        BY <1>4, <1>6, <1>8, <2>4, <3>1, <3>2, BlockIsSequence DEF TypeOK
      <3>6. TypeOK'
        BY <1>2, <1>4, <1>5, <1>6, <1>8, <2>4, <3>1, <3>2, <3>3, <3>4, <3>5, KnownCommands DEF TypeOK
      <3>7. Reading'
        BY <1>2, <1>3, <1>4, <1>6, <1>8, <2>4, <3>1, <3>2, <3>3, <3>5 DEF Reading, Ordered, Served
      <3>8. AtRest' /\ Writing' /\ Initialising'
        BY <1>2, <1>6, <3>1 DEF AtRest, Writing, Initialising
      <3> QED
        BY <2>3, <3>6, <3>7, <3>8
    <2>5. CASE todo = 1
      <3>1. step' = "end" /\ todo' = 0 /\ togo' = 0 /\ work' = "none" /\ fifo' = <<>> /\ order' = order
            /\ status' = status \cup {"TC"}
        BY <1>4, <1>6, <1>8, <2>5
      <3>2. TypeOK'
        BY <1>2, <1>5, <1>6, <3>1 DEF TypeOK
      <3>3. task = "read" => buffer' = content[wanted.sector]
        BY <1>2, <1>3, <1>5, <2>1 DEF Current, TypeOK, Blocks
      <3>4. Reading'
        BY <1>2, <1>3, <1>6, <3>1, <3>3 DEF Reading
      <3>5. AtRest' /\ Writing' /\ Initialising'
        BY <1>2, <1>6, <3>1 DEF AtRest, Writing, Initialising
      <3> QED
        BY <2>3, <3>2, <3>4, <3>5
    <2> QED
      BY <1>2, <2>4, <2>5
  <1> QED
    BY <1>2, <1>7, <1>8

LEMMA EndReadInvariant == IInv /\ EndRead => IInv'
  <1> SUFFICES ASSUME IInv, EndRead PROVE IInv'
    OBVIOUS
  <1> USE Numbers, EmptyQueue DEF IInv, EndRead, Done, sdcard
  <1>1. work = "none" /\ fifo = <<>> /\ card = "tran" /\ on = AllOn /\ "BWR" \notin status
    BY DEF Reading
  <1>2. status' = {}
    BY <1>1 DEF TypeOK
  <1>3. TypeOK'
    BY <1>2 DEF TypeOK
  <1>4. AtRest'
    BY <1>1, <1>2 DEF AtRest, Quiet
  <1>5. Reading' /\ Preloading' /\ Writing' /\ Initialising'
    BY DEF Reading, Preloading, Writing, Initialising
  <1> QED
    BY <1>3, <1>4, <1>5

LEMMA EndPreloadInvariant == IInv /\ EndPreload => IInv'
  <1> SUFFICES ASSUME IInv, EndPreload PROVE IInv'
    OBVIOUS
  <1> USE Numbers, EmptyQueue DEF IInv, EndPreload, Done, sdcard
  <1>1. work = "none" /\ fifo = <<>> /\ card = "tran" /\ on = AllOn /\ stdin_sector = StdinSector
    BY DEF Reading, Preloading
  <1>2. TypeOK'
    BY <1>1 DEF TypeOK
  <1>3. AtRest'
    BY <1>1 DEF AtRest, Quiet
  <1>4. Reading' /\ Preloading' /\ Writing' /\ Initialising'
    BY DEF Reading, Preloading, Writing, Initialising
  <1> QED
    BY <1>2, <1>3, <1>4

LEMMA StartWriteInvariant == IInv /\ StartWrite => IInv'
  <1> SUFFICES ASSUME IInv, StartWrite PROVE IInv'
    OBVIOUS
  <1> USE Numbers DEF IInv
  <1>1. wanted.sector \in CardSectors
    BY DEF TypeOK, Requests
  <1>2. /\ order' = [cmd |-> "CMD24", arg |-> wanted.sector * BlockSize, blocks |-> 1]
        /\ order'.arg \in 0 .. AddressSpace
    BY <1>1, AddressOfSector DEF StartWrite, Issue
  <1>3. card = "tran" /\ on = AllOn
    BY DEF StartWrite, AtRest, Quiet
  <1>4. /\ task = "write" /\ step' = "bwr" /\ status' = {} /\ work' = "command"
        /\ UNCHANGED <<task, todo, togo, wanted, buffer, preloaded, stdin_sector, on, response, fifo, sdcard>>
    BY <1>3 DEF StartWrite, Issue
  <1>5. TypeOK'
    BY <1>2, <1>4, KnownCommands DEF TypeOK, sdcard
  <1>6. Writing'
    BY <1>2, <1>3, <1>4 DEF Writing, Ordered, Current, sdcard
  <1>7. AtRest' /\ Preloading' /\ Reading' /\ Initialising'
    BY <1>4 DEF AtRest, Preloading, Reading, Initialising
  <1> QED
    BY <1>5, <1>6, <1>7

LEMMA WaitWriteInvariant == IInv /\ WaitWrite => IInv'
  <1> SUFFICES ASSUME IInv, WaitWrite PROVE IInv'
    OBVIOUS
  <1> USE Numbers, EmptyQueue DEF IInv, WaitWrite, host, sdcard
  <1>1. TypeOK'
    BY DEF TypeOK
  <1>2. Writing'
    BY DEF Writing, Ordered, Current
  <1>3. AtRest' /\ Preloading' /\ Reading' /\ Initialising'
    BY DEF AtRest, Preloading, Reading, Initialising, Writing
  <1> QED
    BY <1>1, <1>2, <1>3

LEMMA WriteWordInvariant == IInv /\ WriteWord => IInv'
  <1> SUFFICES ASSUME IInv, WriteWord PROVE IInv'
    OBVIOUS
  <1> USE Numbers DEF IInv
  <1>1. /\ step = "put" /\ task = "write" /\ togo \in 1 .. BlockSize /\ work = "take"
        /\ fifo \in Seq(Bytes) /\ Len(fifo) = BlockSize - togo
        /\ \A k \in 1 .. BlockSize - togo : fifo[k] = buffer[k]
        /\ "TC" \notin status /\ Ordered("CMD24", 1)
    BY DEF WriteWord, Writing, TypeOK
  <1>2. Index = Len(fifo) + 1 /\ Index \in 1 .. BlockSize /\ buffer[Index] \in Bytes
    BY <1>1 DEF Index, TypeOK, Blocks
  <1>3. fifo' = Append(fifo, buffer[Index])
    BY <1>1 DEF WriteWord, PortWrite
  <1>4. /\ fifo' \in Seq(Bytes) /\ Len(fifo') = BlockSize - togo + 1
        /\ \A k \in 1 .. Len(fifo) : fifo'[k] = fifo[k]
        /\ fifo'[Index] = buffer[Index]
    BY <1>1, <1>2, <1>3, QueuedUp
  <1>5. \A k \in 1 .. BlockSize - togo + 1 : fifo'[k] = buffer[k]
    <2>1. \A k \in 1 .. BlockSize - togo + 1 : k = Index \/ k \in 1 .. Len(fifo)
      BY <1>1, <1>2
    <2> QED
      BY <1>1, <1>4, <2>1
  <1>6. /\ togo' = togo - 1 /\ step' = (IF togo > 1 THEN "put" ELSE "tc")
        /\ UNCHANGED <<task, todo, wanted, buffer, preloaded, stdin_sector, status, on, order, response, sdcard>>
        /\ work' = IF togo = 1 THEN "program" ELSE "take"
    BY <1>1, <1>4 DEF WriteWord, PortWrite
  <1>7. TypeOK'
    BY <1>1, <1>4, <1>6 DEF TypeOK, sdcard
  <1>8. Writing'
    <2>1. Ordered("CMD24", 1)'
      BY <1>1, <1>6 DEF Ordered, Current, sdcard
    <2>2. togo > 1 => togo' \in 1 .. BlockSize /\ Len(fifo') = BlockSize - togo'
                      /\ \A k \in 1 .. BlockSize - togo' : fifo'[k] = buffer'[k]
      BY <1>1, <1>4, <1>5, <1>6
    <2>3. togo = 1 => fifo' = buffer'
      <3> SUFFICES ASSUME togo = 1 PROVE fifo' = buffer
        BY <1>6
      <3>1. buffer \in Seq(Bytes) /\ Len(buffer) = BlockSize
        BY BlockIsSequence DEF TypeOK
      <3>2. Len(fifo') = BlockSize /\ \A k \in 1 .. BlockSize : fifo'[k] = buffer[k]
        BY <1>4, <1>5
      <3> QED
        BY <1>4, <3>1, <3>2, SeqEqual
    <2> QED
      BY <1>1, <1>6, <2>1, <2>2, <2>3 DEF Writing
  <1>9. AtRest' /\ Preloading' /\ Reading' /\ Initialising'
    BY <1>1, <1>6 DEF AtRest, Preloading, Reading, Initialising
  <1> QED
    BY <1>7, <1>8, <1>9

LEMMA EndWriteInvariant == IInv /\ EndWrite => IInv'
  <1> SUFFICES ASSUME IInv, EndWrite PROVE IInv'
    OBVIOUS
  <1> USE Numbers, EmptyQueue DEF IInv, EndWrite, Done, sdcard
  <1>1. work = "none" /\ fifo = <<>> /\ card = "tran" /\ on = AllOn
    BY DEF Writing, Ordered
  <1>2. TypeOK'
    BY DEF TypeOK
  <1>3. AtRest'
    BY <1>1 DEF AtRest, Quiet
  <1>4. Reading' /\ Preloading' /\ Writing' /\ Initialising'
    BY DEF Reading, Preloading, Writing, Initialising
  <1> QED
    BY <1>2, <1>3, <1>4

-----------------------------------------------------------------------------

LEMMA ReinitInvariant == IInv /\ Reinit => IInv'
  <1> SUFFICES ASSUME IInv, Reinit PROVE IInv'
    OBVIOUS
  <1> USE Numbers, EmptyQueue DEF IInv, Reinit, sdcard
  <1>1. TypeOK'
    BY KnownCommands DEF TypeOK
  <1>2. Initialising'
    BY DEF AtRest, Initialising, Quiet
  <1>3. AtRest' /\ Reading' /\ Preloading' /\ Writing'
    BY DEF AtRest, Reading, Preloading, Writing
  <1> QED
    BY <1>1, <1>2, <1>3

LEMMA SwitchOnInvariant == IInv /\ SwitchOn => IInv'
  <1> SUFFICES ASSUME IInv, SwitchOn PROVE IInv'
    OBVIOUS
  <1> USE Numbers, EmptyQueue DEF IInv, SwitchOn, sdcard
  <1>1. task = "reinit" /\ Quiet
    BY DEF Initialising
  <1>2. TypeOK'
    BY Commands DEF TypeOK
  <1>3. Initialising'
    BY <1>1, Commands, States DEF Initialising, Quiet
  <1>4. AtRest' /\ Reading' /\ Preloading' /\ Writing'
    BY <1>1 DEF AtRest, Reading, Preloading, Writing
  <1> QED
    BY <1>2, <1>3, <1>4

LEMMA StartCommandInvariant == IInv /\ StartCommand => IInv'
  <1> SUFFICES ASSUME IInv, StartCommand PROVE IInv'
    OBVIOUS
  <1> USE Numbers DEF IInv
  <1>1. /\ task = "reinit" /\ step = "start" /\ todo \in 1 .. 8 /\ status = {} /\ fifo = <<>> /\ on = AllOn
        /\ card = Along[todo] /\ (todo = 4 => app) /\ (todo = 7 => response = RCA)
    BY Commands DEF StartCommand, Initialising
  <1>2. /\ step' = "cc" /\ work' = "command"
        /\ order' = [cmd |-> InitCommands[todo],
                     arg |-> IF InitCommands[todo] = "CMD7" THEN response ELSE 0, blocks |-> 0]
        /\ UNCHANGED <<task, todo, togo, wanted, buffer, preloaded, stdin_sector, status, on, response, fifo, sdcard>>
    BY <1>1 DEF StartCommand, Issue
  <1>3. TypeOK'
    <2>1. InitCommands[todo] \in DOMAIN Takes
      BY <1>1, Commands, KnownCommands
    <2>2. response \in 0 .. AddressSpace
      BY DEF TypeOK, RCA
    <2> QED
      BY <1>2, <2>1, <2>2 DEF TypeOK, sdcard
  <1>4. Initialising'
    BY <1>1, <1>2, Commands DEF Initialising, sdcard
  <1>5. AtRest' /\ Reading' /\ Preloading' /\ Writing'
    BY <1>1, <1>2 DEF AtRest, Reading, Preloading, Writing
  <1> QED
    BY <1>3, <1>4, <1>5

LEMMA EndCommandInvariant == IInv /\ EndCommand => IInv'
  <1> SUFFICES ASSUME IInv, EndCommand PROVE IInv'
    OBVIOUS
  <1> USE Numbers, EmptyQueue DEF IInv
  <1>1. /\ task = "reinit" /\ todo \in 1 .. 8 /\ work = "none" /\ fifo = <<>> /\ on = AllOn
        /\ card = Along[todo + 1] /\ (todo = 3 => app) /\ (todo = 6 => response = RCA)
    BY Commands DEF EndCommand, Initialising
  <1>2. status' = {} /\ UNCHANGED <<task, wanted, buffer, preloaded, stdin_sector, on, order, response, work, fifo, sdcard>>
    BY DEF EndCommand
  <1>3. CASE todo < 8
    <2>1. step' = "start" /\ todo' = todo + 1 /\ todo' \in 1 .. 8 /\ togo' = togo
      BY <1>1, <1>3, Commands DEF EndCommand
    <2>2. TypeOK'
      BY <1>2, <2>1, Commands DEF TypeOK, sdcard
    <2>3. Initialising'
      BY <1>1, <1>2, <2>1, Commands DEF Initialising, sdcard
    <2>4. AtRest' /\ Reading' /\ Preloading' /\ Writing'
      BY <1>1, <1>2, <2>1 DEF AtRest, Reading, Preloading, Writing
    <2> QED
      BY <2>2, <2>3, <2>4
  <1>4. CASE todo = 8
    <2>1. step' = "idle" /\ todo' = 0 /\ togo' = 0
      BY <1>4, Commands DEF EndCommand, Done
    <2>2. TypeOK'
      BY <1>2, <2>1 DEF TypeOK, sdcard
    <2>3. card = "tran"
      BY <1>1, <1>4, States
    <2>4. AtRest'
      BY <1>1, <1>2, <2>1, <2>3 DEF AtRest, Quiet, sdcard
    <2>5. Reading' /\ Preloading' /\ Writing' /\ Initialising'
      BY <2>1 DEF Reading, Preloading, Writing, Initialising
    <2> QED
      BY <2>2, <2>4, <2>5
  <1> QED
    BY <1>1, <1>3, <1>4

-----------------------------------------------------------------------------

\* Of the commands that move no data the state of the card moves along.
LEMMA CommandTaken ==
    ASSUME IInv, step = "cc", CommandComplete
    PROVE  /\ work' = "none" /\ card' = Along[todo + 1]
           /\ todo = 3 => app'
           /\ todo = 6 => response' = RCA
  <1>1. todo \in 1 .. 8 /\ order.cmd = InitCommands[todo] /\ "CC" \notin status /\ card = Along[todo]
    BY AtWork, Commands DEF IInv, Initialising, CommandComplete
  <1>2. card' = Behind[order.cmd]
    BY DEF CommandComplete
  <1>3. card' = Along[todo + 1]
    <2>1. todo \in {1, 2, 3, 4, 5, 6, 7, 8}
      BY <1>1
    <2> QED
      BY <1>1, <1>2, <2>1, Commands, States, Afterwards
  <1>4. order.cmd \in {"CMD0", "CMD8", "CMD55", "ACMD41", "CMD2", "CMD3", "CMD7", "CMD16"}
    BY <1>1, Commands
  <1>5. work' = "none"
    BY <1>4 DEF CommandComplete
  <1>6. (todo = 3 => app') /\ (todo = 6 => response' = RCA)
    BY <1>1, Commands DEF CommandComplete
  <1> QED
    BY <1>3, <1>5, <1>6

LEMMA CommandCompleteInvariant == IInv /\ CommandComplete => IInv'
  <1> SUFFICES ASSUME IInv, CommandComplete PROVE IInv'
    OBVIOUS
  <1> USE Numbers DEF IInv
  <1>1. /\ work = "command" /\ status' = status \cup {"CC"}
        /\ UNCHANGED <<task, step, todo, togo, wanted, buffer, preloaded, stdin_sector, on, order, fifo, content>>
        /\ response' \in {0, RCA} /\ app' \in BOOLEAN /\ card' = Behind[order.cmd]
    BY DEF CommandComplete, driver
  <1>2. step \in {"brr", "bwr", "cc"} /\ (step = "cc" => "CC" \notin status)
    BY <1>1, AtWork
  <1>3. order.cmd \in DOMAIN Takes
    BY DEF TypeOK
  <1>4. card' \in {"idle", "ready", "ident", "stby", "tran"}
    BY <1>1, <1>3, KnownCommands, Afterwards, CardStates DEF TypeOK
  <1>5. work' \in {"none", "fetch", "room"}
    BY DEF CommandComplete
  <1>6. TypeOK'
    BY <1>1, <1>4, <1>5, CardStates DEF TypeOK
  <1>7. CASE step = "brr"
    <2>1. order.cmd \in {"CMD17", "CMD18"} /\ "BRR" \notin status
      BY <1>1, <1>7 DEF Reading, Ordered
    <2>2. work' = "fetch" /\ card' = "tran"
      BY <1>1, <2>1, Afterwards DEF CommandComplete
    <2>3. Reading'
      BY <1>1, <1>7, <2>2 DEF Reading, Ordered, Current
    <2>4. AtRest' /\ Preloading' /\ Writing' /\ Initialising'
      BY <1>1, <1>7 DEF AtRest, Preloading, Writing, Initialising
    <2> QED
      BY <1>6, <2>3, <2>4
  <1>8. CASE step = "bwr"
    <2>1. order.cmd = "CMD24" /\ "BWR" \notin status
      BY <1>1, <1>8 DEF Writing, Ordered
    <2>2. work' = "room" /\ card' = "tran"
      BY <1>1, <2>1, Afterwards DEF CommandComplete
    <2>3. Writing'
      BY <1>1, <1>8, <2>1, <2>2 DEF Writing, Ordered, Current
    <2>4. AtRest' /\ Preloading' /\ Reading' /\ Initialising'
      BY <1>1, <1>8 DEF AtRest, Preloading, Reading, Initialising
    <2> QED
      BY <1>6, <2>3, <2>4
  <1>9. CASE step = "cc"
    <2>1. work' = "none" /\ card' = Along[todo + 1] /\ (todo = 3 => app') /\ (todo = 6 => response' = RCA)
      BY <1>9, CommandTaken
    <2>2. Initialising'
      BY <1>1, <1>9, <2>1 DEF Initialising
    <2>3. AtRest' /\ Reading' /\ Preloading' /\ Writing'
      BY <1>1, <1>9 DEF AtRest, Reading, Preloading, Writing
    <2> QED
      BY <1>6, <2>2, <2>3
  <1> QED
    BY <1>2, <1>7, <1>8, <1>9

LEMMA BufferReadReadyInvariant == IInv /\ BufferReadReady => IInv'
  <1> SUFFICES ASSUME IInv, BufferReadReady PROVE IInv'
    OBVIOUS
  <1> USE Numbers DEF IInv, BufferReadReady, driver, sdcard
  <1>1. step = "brr"
    BY AtWork
  <1>2. Current \in CardSectors /\ fifo' = content[Current]
    BY <1>1, RightSector
  <1>3. fifo' \in Seq(Bytes) /\ Len(fifo') = BlockSize
    BY <1>2, BlockIsSequence DEF TypeOK
  <1>4. TypeOK'
    BY <1>3 DEF TypeOK
  <1>5. Reading'
    BY <1>1, <1>2, <1>3 DEF Reading, Ordered, Served, Current
  <1>6. AtRest' /\ Preloading' /\ Writing' /\ Initialising'
    BY <1>1 DEF AtRest, Preloading, Writing, Initialising
  <1> QED
    BY <1>4, <1>5, <1>6

LEMMA BufferWriteReadyInvariant == IInv /\ BufferWriteReady => IInv'
  <1> SUFFICES ASSUME IInv, BufferWriteReady PROVE IInv'
    OBVIOUS
  <1> USE EmptyQueue DEF IInv, BufferWriteReady, driver, sdcard
  <1>1. step = "bwr"
    BY AtWork
  <1>2. TypeOK'
    BY DEF TypeOK
  <1>3. Writing'
    BY <1>1 DEF Writing, Ordered, Current
  <1>4. AtRest' /\ Preloading' /\ Reading' /\ Initialising'
    BY <1>1 DEF AtRest, Preloading, Reading, Initialising
  <1> QED
    BY <1>2, <1>3, <1>4

\* The card programs the sector that was asked for, with what was in the buffer.
LEMMA Programmed ==
    ASSUME IInv, TransferComplete
    PROVE  /\ step = "tc" /\ task = "write" /\ "TC" \notin status
           /\ content' = [content EXCEPT ![wanted.sector] = buffer]
  <1>1. step = "tc" /\ "TC" \notin status /\ fifo = buffer
    BY AtWork DEF TransferComplete
  <1>2. task = "write"
    BY <1>1 DEF IInv, Writing
  <1>3. Sector = wanted.sector
    BY <1>1, <1>2, RightSector DEF Current
  <1> QED
    BY <1>1, <1>2, <1>3 DEF TransferComplete

LEMMA TransferCompleteInvariant == IInv /\ TransferComplete => IInv'
  <1> SUFFICES ASSUME IInv, TransferComplete PROVE IInv'
    OBVIOUS
  <1> USE EmptyQueue DEF IInv
  <1>1. /\ step = "tc" /\ task = "write" /\ content' = [content EXCEPT ![wanted.sector] = buffer]
    BY Programmed
  <1>2. /\ work' = "none" /\ fifo' = <<>> /\ status' = status \cup {"TC"}
        /\ UNCHANGED <<driver, on, order, response, card, app>>
    BY DEF TransferComplete
  <1>3. TypeOK'
    BY <1>1, <1>2 DEF TypeOK, driver
  <1>4. Writing'
    BY <1>1, <1>2 DEF Writing, Ordered, Current, driver
  <1>5. AtRest' /\ Preloading' /\ Reading' /\ Initialising'
    BY <1>1, <1>2 DEF AtRest, Preloading, Reading, Initialising, driver
  <1> QED
    BY <1>3, <1>4, <1>5

LEMMA ClockStableInvariant == IInv /\ ClockStable => IInv'
  <1> SUFFICES ASSUME IInv, ClockStable PROVE IInv'
    OBVIOUS
  <1> USE DEF IInv, ClockStable, driver, sdcard
  <1>1. step = "clock"
    BY AtWork
  <1>2. TypeOK'
    BY DEF TypeOK, AllOn
  <1>3. Initialising'
    BY <1>1 DEF Initialising, Quiet
  <1>4. AtRest' /\ Reading' /\ Preloading' /\ Writing'
    BY <1>1 DEF AtRest, Reading, Preloading, Writing
  <1> QED
    BY <1>2, <1>3, <1>4

LEMMA NextInvariant == IInv /\ [Next]_vars => IInv'
  <1> SUFFICES ASSUME IInv, [Next]_vars PROVE IInv'
    OBVIOUS
  <1>1. CASE UNCHANGED vars
    <2>1. UNCHANGED <<task, step, todo, togo, wanted, buffer, preloaded, stdin_sector>>
      BY <1>1 DEF vars, driver
    <2>2. UNCHANGED <<status, on, order, response, work, fifo, card, app, content>>
      BY <1>1 DEF vars, host, sdcard
    <2>3. TypeOK' /\ AtRest' /\ Preloading'
      BY <2>1, <2>2 DEF IInv, TypeOK, AtRest, Quiet, Preloading
    <2>4. Reading' /\ Writing' /\ Initialising'
      BY <2>1, <2>2 DEF IInv, Reading, Writing, Initialising, Quiet, Ordered, Served, Current
    <2> QED
      BY <2>3, <2>4 DEF IInv
  <1>2. CASE \E r \in Requests, v \in Blocks : Call(r, v)
    BY <1>2, CallInvariant
  <1>3. CASE Reinit
    BY <1>3, ReinitInvariant
  <1>4. CASE Driver
    BY <1>4, StartReadInvariant, StartPreloadInvariant, WaitReadInvariant, ReadWordInvariant,
       EndReadInvariant, EndPreloadInvariant, StartWriteInvariant, WaitWriteInvariant,
       WriteWordInvariant, EndWriteInvariant, SwitchOnInvariant, StartCommandInvariant,
       EndCommandInvariant DEF Driver
  <1>5. CASE Controller
    BY <1>5, CommandCompleteInvariant, BufferReadReadyInvariant, BufferWriteReadyInvariant,
       TransferCompleteInvariant, ClockStableInvariant DEF Controller
  <1> QED
    BY <1>1, <1>2, <1>3, <1>4, <1>5 DEF Next

LEMMA Inductive == Spec => []IInv
  BY InitInvariant, NextInvariant, PTL DEF Spec

-----------------------------------------------------------------------------
\* Driver and controller keep their types, wherever a transfer, a preload or an
\* initialisation of the card stands.
THEOREM HostTypeCorrect == Spec => []TypeOK
  <1>1. IInv => TypeOK
    BY DEF IInv
  <1> QED
    BY <1>1, Inductive, PTL

\* Driver and controller use the data port in turn and count the same words,
\* and a call of sdhci_read_sector, sdhci_write_sector or sdhci_reinit_card
\* leaves nothing of itself behind.
THEOREM StaysInTurn == Spec => []InTurn
  <1>1. IInv => InTurn
    BY DEF IInv, AtRest, Quiet, Reading, Writing, Ordered, Served, InTurn
  <1> QED
    BY <1>1, Inductive, PTL

\* Standard input goes on from what the preload has read.
THEOREM PreloadIsTheDisk == Spec => PreloadsTheDisk
  <1>1. IInv /\ [Next]_vars =>
          [stdin_sector' # stdin_sector =>
             /\ DOMAIN preloaded' = 1 .. stdin_sector' - StdinSector
             /\ \A k \in DOMAIN preloaded' : preloaded'[k] = content[StdinSector + k - 1]]_vars
    <2> SUFFICES ASSUME IInv, Next, stdin_sector' # stdin_sector
                 PROVE  /\ DOMAIN preloaded' = 1 .. stdin_sector' - StdinSector
                        /\ \A k \in DOMAIN preloaded' : preloaded'[k] = content[StdinSector + k - 1]
      OBVIOUS
    <2>1. EndPreload
      BY DEF Next, Driver, Controller, Call, Reinit, StartRead, StartPreload, WaitRead, ReadWord,
        EndRead, StartWrite, WaitWrite, WriteWord, EndWrite, SwitchOn, StartCommand, EndCommand,
        CommandComplete, BufferReadReady, BufferWriteReady, TransferComplete, ClockStable, driver
    <2>2. /\ stdin_sector = StdinSector /\ todo = 0
          /\ \A k \in 1 .. PreloadBlocks - todo : preloaded[k] = content[StdinSector + k - 1]
      BY <2>1 DEF EndPreload, IInv, Preloading, Reading
    <2>3. DOMAIN preloaded = 1 .. PreloadBlocks
      BY DEF IInv, TypeOK
    <2> QED
      BY <2>1, <2>2, <2>3, Numbers DEF EndPreload
  <1> QED
    BY <1>1, Inductive, PTL DEF Spec, PreloadsTheDisk

-----------------------------------------------------------------------------
(* The refinement *)

\* The phase of the call and its buffer, as Disk sees them.
Phase == IF ~Calling THEN "idle" ELSE IF Moved THEN "ok" ELSE "called"

Buffer == IF Calling /\ task = "read" /\ ~Moved THEN CHOOSE v \in Blocks : TRUE ELSE buffer

diskVars == <<Phase, wanted, content, Buffer, 0>>

\* There is a block to stand for what a read has not got yet.
LEMMA SomeBlock == (CHOOSE v \in Blocks : TRUE) \in Blocks
  <1>1. PICK b \in Bytes : TRUE
    BY SdAssumption
  <1>2. [i \in 1 .. BlockSize |-> b] \in Blocks
    BY DEF Blocks
  <1> QED
    BY <1>2

LEMMA PromiseInit == Init => Promise!Init
  BY DEF Init, Calling, Promise!Init, Promise!Requests, Requests

\* Outside of calls for a sector nothing changes for Disk.
LEMMA NoCall ==
    ASSUME ~Calling, ~Calling', UNCHANGED <<wanted, buffer, content>>
    PROVE  UNCHANGED diskVars
  BY DEF diskVars, Phase, Buffer

\* Within a call nothing does before the sector has moved.
LEMMA NotYet ==
    ASSUME Calling, Calling', ~Moved, ~Moved', task = "read" \/ buffer' = buffer,
           UNCHANGED <<task, wanted, content>>
    PROVE  UNCHANGED diskVars
  BY DEF diskVars, Phase, Buffer

\* The steps of sdhci_read_sector and of the preload.
LEMMA ReadPromise ==
    ASSUME IInv, IInv', StartRead \/ StartPreload \/ WaitRead \/ ReadWord \/ EndRead \/ EndPreload
    PROVE  Promise!Next \/ UNCHANGED diskVars
  <1>1. UNCHANGED <<task, wanted, content>>
    BY DEF StartRead, StartPreload, WaitRead, ReadWord, EndRead, EndPreload, sdcard
  <1>2. task \in {"read", "preload"}
    BY DEF StartRead, StartPreload, WaitRead, ReadWord, EndRead, EndPreload, IInv, Reading
  <1>3. CASE task = "preload"
    <2>1. UNCHANGED buffer
      BY <1>3 DEF StartRead, StartPreload, WaitRead, ReadWord, EndRead, EndPreload
    <2> QED
      BY <1>1, <1>3, <2>1, NoCall DEF Calling
  <1>4. CASE task = "read" /\ step \in {"start", "brr", "get"} /\ step' \in {"start", "brr", "get"}
    BY <1>1, <1>4, NotYet DEF Calling, Moved
  <1>5. CASE task = "read" /\ step \in {"start", "brr", "get"} /\ step' = "end"
    <2>1. buffer' = content[wanted.sector]
      BY <1>1, <1>5 DEF IInv, Reading
    <2>2. Phase = "called" /\ Phase' = "ok" /\ Buffer' = buffer'
      BY <1>1, <1>5 DEF Phase, Buffer, Calling, Moved
    <2>3. wanted.op = "read"
      BY <1>2, <1>5 DEF IInv, AtRest
    <2> QED
      BY <1>1, <2>1, <2>2, <2>3 DEF Promise!Next, Promise!Move, Phase, Buffer
  <1>6. CASE task = "read" /\ EndRead
    <2>1. step = "end" /\ step' = "idle" /\ buffer' = buffer
      BY <1>6 DEF EndRead, Done
    <2>2. Phase = "ok" /\ Phase' = "idle" /\ Buffer' = Buffer
      BY <1>1, <1>6, <2>1 DEF Phase, Buffer, Calling, Moved
    <2> QED
      BY <1>1, <2>2 DEF Promise!Next, Promise!Return, Phase, Buffer
  <1>7. task = "read" /\ ~EndRead => step \in {"start", "brr", "get"} /\ step' \in {"start", "brr", "get", "end"}
    BY DEF StartRead, StartPreload, WaitRead, ReadWord, EndPreload
  <1> QED
    BY <1>2, <1>3, <1>4, <1>5, <1>6, <1>7

\* The steps of sdhci_write_sector.
LEMMA WritePromise ==
    ASSUME IInv, StartWrite \/ WaitWrite \/ WriteWord \/ EndWrite
    PROVE  Promise!Next \/ UNCHANGED diskVars
  <1>1. task = "write" /\ UNCHANGED <<task, wanted, buffer, content>>
    BY DEF StartWrite, WaitWrite, WriteWord, EndWrite, IInv, Writing, sdcard, host
  <1>2. CASE StartWrite \/ WaitWrite \/ WriteWord
    <2>1. step \in {"start", "bwr", "put"} /\ step' \in {"bwr", "put", "tc"}
      BY <1>2 DEF StartWrite, WaitWrite, WriteWord
    <2>2. step' = "tc" => "TC" \notin status'
      BY <1>2 DEF StartWrite, WaitWrite, WriteWord, IInv, Writing
    <2> QED
      BY <1>1, <2>1, <2>2, NotYet DEF Calling, Moved
  <1>3. CASE EndWrite
    <2>1. step = "tc" /\ "TC" \in status /\ step' = "idle"
      BY <1>3 DEF EndWrite, Done
    <2>2. Phase = "ok" /\ Phase' = "idle" /\ Buffer' = Buffer
      BY <1>1, <2>1 DEF Phase, Buffer, Calling, Moved
    <2> QED
      BY <1>1, <2>2 DEF Promise!Next, Promise!Return, Phase, Buffer
  <1> QED
    BY <1>2, <1>3

\* The steps of the controller: the sector that is written moves with one.
LEMMA ControllerPromise ==
    ASSUME IInv, Controller
    PROVE  Promise!Next \/ UNCHANGED diskVars
  <1>1. UNCHANGED <<task, step, wanted, buffer>>
    BY DEF Controller, CommandComplete, BufferReadReady, BufferWriteReady, TransferComplete, ClockStable, driver
  <1>2. CASE TransferComplete
    <2>1. /\ step = "tc" /\ task = "write" /\ "TC" \notin status
          /\ content' = [content EXCEPT ![wanted.sector] = buffer] /\ "TC" \in status'
      BY <1>2, Programmed DEF TransferComplete
    <2>2. Phase = "called" /\ Phase' = "ok" /\ Buffer = buffer /\ Buffer' = buffer
      BY <1>1, <2>1 DEF Phase, Buffer, Calling, Moved
    <2>3. wanted.op = "write"
      BY <2>1 DEF IInv, AtRest
    <2> QED
      BY <1>1, <2>1, <2>2, <2>3 DEF Promise!Next, Promise!Move, Phase, Buffer
  <1>3. CASE CommandComplete \/ BufferReadReady \/ BufferWriteReady \/ ClockStable
    <2>1. UNCHANGED content /\ ("TC" \in status') = ("TC" \in status)
      BY <1>3 DEF CommandComplete, BufferReadReady, BufferWriteReady, ClockStable, sdcard
    <2>2. Calling' = Calling /\ Moved' = Moved
      BY <1>1, <2>1 DEF Calling, Moved
    <2> QED
      BY <1>1, <2>1, <2>2 DEF diskVars, Phase, Buffer
  <1> QED
    BY <1>2, <1>3 DEF Controller

LEMMA PromiseStep == IInv /\ IInv' /\ [Next]_vars => [Promise!Next]_diskVars
  <1> SUFFICES ASSUME IInv, IInv', [Next]_vars
               PROVE  Promise!Next \/ UNCHANGED diskVars
    OBVIOUS
  <1>1. ASSUME NEW r \in Requests, NEW v \in Blocks, Call(r, v) PROVE Promise!Next
    <2>1. /\ step = "idle" /\ step' = "start" /\ task' = r.op /\ task' \in {"read", "write"}
          /\ wanted' = r /\ buffer' = v /\ content' = content
      BY <1>1 DEF Call, Requests, sdcard
    <2>2. Phase = "idle" /\ Phase' = "called" /\ Buffer' \in Blocks
      BY <2>1, SomeBlock DEF Phase, Buffer, Calling, Moved
    <2> QED
      BY <2>1, <2>2 DEF Promise!Next, Promise!Call, Promise!Requests, Requests, Phase, Buffer
  <1>2. CASE Reinit \/ SwitchOn \/ StartCommand \/ EndCommand
    <2>1. UNCHANGED <<wanted, buffer, content>> /\ ~Calling /\ ~Calling'
      BY <1>2 DEF Reinit, SwitchOn, StartCommand, EndCommand, Calling, sdcard, host, IInv, Initialising
    <2> QED
      BY <2>1, NoCall
  <1>3. CASE UNCHANGED vars
    BY <1>3 DEF vars, driver, host, sdcard, diskVars, Phase, Buffer, Calling, Moved
  <1> QED
    BY <1>1, <1>2, <1>3, ReadPromise, WritePromise, ControllerPromise DEF Next, Driver

\* For its callers the driver with its controller and its card is a disk: a
\* call moves one sector, all of it and no other.
THEOREM HostIsADisk == Spec => HostImplementsDisk
  <1>1. Promise!Spec <=> Promise!Init /\ [][Promise!Next]_diskVars
    BY DEF Promise!Spec, diskVars, Phase, Buffer
  <1> QED
    BY <1>1, PromiseInit, PromiseStep, Inductive, PTL DEF Spec, HostImplementsDisk
=============================================================================
