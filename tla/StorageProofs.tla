---------------------------- MODULE StorageProofs ----------------------------
(***************************************************************************)
(* The VirtIO driver and the device agree on who owns the request, and     *)
(* together they implement Disk: for every number of sectors, whatever     *)
(* they hold, and however far the indexes count before they wrap.          *)
(*                                                                         *)
(* What is proved of each driver by itself holds in the kernel that        *)
(* chooses between them: until a driver is dispatched to, and while the    *)
(* other one runs, neither its variables nor its device change.            *)
(*                                                                         *)
(* That the right one is chosen: the walk over the tokens of a board is    *)
(* followed node by node (Leads, NodeWalked), with what it has found of    *)
(* the nodes so far (FoundSoFar), although it keeps no stack.              *)
(***************************************************************************)
EXTENDS Storage, SequenceTheorems, FiniteSetTheorems, WellFoundedInduction, TLAPS

-----------------------------------------------------------------------------
(* The VirtIO driver by itself *)

\* The index behind another is an index, and a different one: that a request
\* was answered can be seen, wrap or not.
LEMMA NextIndex ==
    \A i \in Indexes : After(i) \in Indexes /\ After(i) # i
  BY VirtioAssumption DEF After, Indexes

LEMMA ZeroIndex == 0 \in Indexes
  BY VirtioAssumption DEF Indexes

LEMMA Statuses == Ok # Pending /\ IoError # Pending /\ Ok # IoError
  BY DEF Ok, IoError, Pending

LEMMA NoRequest == None \notin Requests
  BY VirtioAssumption DEF Requests

-----------------------------------------------------------------------------

LEMMA InitInvariant == Init => IInv
  <1> SUFFICES ASSUME Init PROVE IInv
    OBVIOUS
  <1>1. TypeOK
    BY ZeroIndex DEF Init, TypeOK
  <1>2. Agreement
    BY DEF Init, Agreement, AtRest
  <1> QED
    BY <1>1, <1>2 DEF IInv

LEMMA StepInvariant == IInv /\ [Next]_vars => IInv'
  <1> SUFFICES ASSUME IInv, [Next]_vars PROVE IInv'
    OBVIOUS
  <1> USE DEF IInv, driver, shared, device
  <1>1. CASE Reset
    <2>1. TypeOK'
      BY <1>1, ZeroIndex DEF Reset, TypeOK
    <2>2. Agreement'
      BY <1>1 DEF Reset, Agreement, TypeOK
    <2> QED
      BY <2>1, <2>2
  <1>2. CASE Clear
    <2>1. TypeOK'
      BY <1>2, ZeroIndex DEF Clear, Zeroed, TypeOK
    <2>2. Agreement'
      BY <1>2 DEF Clear, Zeroed, Agreement, TypeOK
    <2> QED
      BY <2>1, <2>2
  <1>3. CASE Start
    <2>1. TypeOK'
      BY <1>3 DEF Start, TypeOK
    <2>2. Agreement'
      BY <1>3 DEF Start, Agreement, AtRest, TypeOK
    <2> QED
      BY <2>1, <2>2
  <1>4. ASSUME NEW r \in Requests, NEW v \in Values, Enter(r, v) PROVE IInv'
    <2>1. TypeOK'
      BY <1>4 DEF Enter, TypeOK
    <2>2. Agreement'
      BY <1>4 DEF Enter, Agreement, AtRest, TypeOK
    <2> QED
      BY <2>1, <2>2
  <1>5. CASE Describe
    <2>1. TypeOK'
      BY <1>5, Zenon DEF Describe, DeviceWrites, TypeOK
    <2>2. Agreement'
      BY <1>5 DEF Describe, DeviceWrites, Agreement, AtRest, TypeOK
    <2> QED
      BY <2>1, <2>2
  <1>6. CASE Publish
    <2>1. TypeOK'
      BY <1>6, NextIndex DEF Publish, NextAvailable, TypeOK
    <2>2. Agreement'
      BY <1>6 DEF Publish, NextAvailable, Agreement, AtRest, Waiting, TypeOK
    <2> QED
      BY <2>1, <2>2
  <1>7. CASE Notify
    <2>1. TypeOK'
      BY <1>7 DEF Notify, TypeOK
    <2>2. Agreement'
      BY <1>7 DEF Notify, Agreement, AtRest, Waiting, Working, Returned, TypeOK
    <2> QED
      BY <2>1, <2>2
  <1>8. CASE Poll
    <2>1. Returned
      BY <1>8 DEF Poll, Used, Agreement, Waiting, Working
    <2>2. TypeOK'
      BY <1>8, <2>1 DEF Poll, Returned, TypeOK
    <2>3. Agreement'
      BY <1>8, <2>1 DEF Poll, Agreement, AtRest, Returned, TypeOK
    <2> QED
      BY <2>2, <2>3
  <1>9. CASE Take
    <2>1. pc \in {"notify", "poll"} /\ Waiting
      BY <1>9 DEF Take, Agreement, AtRest, Waiting, Working, Returned, TypeOK
    <2>2. TypeOK'
      BY <1>9, NextIndex DEF Take, TypeOK
    <2>3. Working'
      BY <1>9, <2>1 DEF Take, Waiting, Working
    <2>4. Agreement'
      BY <1>9, <2>1, <2>3 DEF Take, Agreement, TypeOK
    <2> QED
      BY <2>2, <2>4
  <1>10. ASSUME stage # "idle" PROVE pc \in {"notify", "poll"} /\ Working
    BY <1>10 DEF Agreement, AtRest, Waiting, Returned, TypeOK
  <1>11. CASE Move
    <2>1. pc \in {"notify", "poll"} /\ Working
      BY <1>10, <1>11 DEF Move
    <2>2. TypeOK'
      <3>1. work \in Requests
        BY <2>1 DEF Working, TypeOK
      <3>2. work.sector \in Sectors
        BY <3>1 DEF Requests
      <3> QED
        BY <1>11, <3>2 DEF Move, TypeOK
    <2>3. Working'
      BY <1>11, <2>1 DEF Move, Working
    <2>4. Agreement'
      BY <1>11, <2>1, <2>3 DEF Move, Agreement, TypeOK
    <2> QED
      BY <2>2, <2>4
  <1>12. CASE Answer \/ Refuse
    <2>1. pc \in {"notify", "poll"} /\ Working
      BY <1>10, <1>12 DEF Answer, Refuse
    <2>2. TypeOK'
      BY <1>12 DEF Answer, Refuse, TypeOK
    <2>3. Working'
      BY <1>12, <2>1, Statuses DEF Answer, Refuse, Working
    <2>4. Agreement'
      BY <1>12, <2>1, <2>3 DEF Answer, Refuse, Agreement, TypeOK
    <2> QED
      BY <2>2, <2>4
  <1>13. CASE Return
    <2>1. pc \in {"notify", "poll"} /\ Working
      BY <1>10, <1>13 DEF Return
    <2>2. TypeOK'
      BY <1>13, NextIndex DEF Return, TypeOK
    <2>3. Returned'
      BY <1>13, <2>1 DEF Return, Working, Returned, AtRest
    <2>4. Agreement'
      BY <1>13, <2>1, <2>3 DEF Return, Agreement, TypeOK
    <2> QED
      BY <2>2, <2>4
  <1>14. CASE UNCHANGED vars
    BY <1>14 DEF vars, TypeOK, Agreement, AtRest, Waiting, Working, Returned
  <1> QED
    BY <1>1, <1>2, <1>3, <1>4, <1>5, <1>6, <1>7, <1>8, <1>9, <1>11, <1>12, <1>13, <1>14
    DEF Next, Driver, Device

LEMMA InductiveInvariant == Spec => []IInv
  BY InitInvariant, StepInvariant, PTL DEF Spec

\* The driver's and the device's variables keep their types: the indexes stay
\* halfwords, and no result is the status of a request under way.
THEOREM TypeCorrect == Spec => []TypeOK
  BY InductiveInvariant, PTL DEF IInv

\* The header and the descriptors are never written while the device works on
\* them, and what it works on is the call under way.
THEOREM OneOwnerAlways == Spec => []OneOwner
  <1>1. IInv => OneOwner
    <2> SUFFICES ASSUME IInv PROVE OneOwner
      OBVIOUS
    <2> USE DEF IInv
    <2>1. pc \notin {"notify", "poll"} => stage = "idle" /\ (live => taken = avail_idx)
      BY DEF Agreement, AtRest, TypeOK
    <2>2. stage # "idle" => work = header /\ writable = (header.op = "read")
      BY DEF Agreement, AtRest, Waiting, Working, Returned, TypeOK
    <2> QED
      BY <2>1, <2>2 DEF OneOwner
  <1> QED
    BY <1>1, InductiveInvariant, PTL

-----------------------------------------------------------------------------
(* The refinement *)

\* The phase of the call, as Disk sees it.
Phase == IF pc \in {"reset", "clear", "start", "idle"} THEN "idle"
         ELSE IF stage = "moved" \/ status = Ok THEN "ok"
         ELSE IF status = IoError THEN "failed" ELSE "called"

LEMMA PromiseInit == Init => Promise!Init
  BY DEF Init, Promise!Init, Promise!Requests, Requests, Ok

LEMMA PromiseStep == IInv /\ IInv' /\ [Next]_vars =>
                         [Promise!Next]_<<Phase, header, content, memory, result>>
  <1> SUFFICES ASSUME IInv, IInv', [Next]_vars
               PROVE  Promise!Next \/ UNCHANGED <<Phase, header, content, memory, result>>
    OBVIOUS
  <1> USE Statuses DEF IInv, driver, shared, device
  <1>1. ASSUME NEW r \in Requests, NEW v \in Values, Enter(r, v) PROVE Promise!Call
    BY <1>1 DEF Enter, Promise!Call, Promise!Requests, Requests, Agreement, AtRest
  <1>2. CASE Reset \/ Clear \/ Start
    BY <1>2 DEF Reset, Clear, Start, Phase
  <1>3. CASE Describe \/ Publish \/ Notify
    BY <1>3 DEF Describe, Publish, Notify, Phase
  <1>4. CASE Poll
    <2>1. Returned
      BY <1>4 DEF Poll, Used, Agreement, Waiting, Working
    <2>2. Phase = (IF status = Ok THEN "ok" ELSE "failed") /\ Phase' = "idle"
      BY <1>4, <2>1 DEF Poll, Returned, AtRest, Phase, TypeOK
    <2>3. result' = IF status = Ok THEN 0 ELSE 1
      BY <1>4, <2>1 DEF Poll, Returned, TypeOK, Ok, IoError
    <2> QED
      BY <1>4, <2>2, <2>3 DEF Poll, Promise!Return, Promise!Next, Phase
  <1>5. CASE Take
    BY <1>5 DEF Take, Phase
  <1>6. ASSUME stage # "idle" PROVE pc \in {"notify", "poll"} /\ Working
    BY <1>6 DEF Agreement, AtRest, Waiting, Returned, TypeOK
  <1>7. CASE Move
    <2>1. pc \in {"notify", "poll"} /\ Working /\ status = Pending
      BY <1>6, <1>7 DEF Move, Working
    <2>2. Phase = "called" /\ Phase' = "ok"
      BY <1>7, <2>1 DEF Move, Phase
    <2>3. work = header
      BY <2>1 DEF Working
    <2> QED
      BY <1>7, <2>2, <2>3 DEF Move, Promise!Move, Promise!Next, Phase
  <1>8. CASE Answer
    <2>1. pc \in {"notify", "poll"}
      BY <1>6, <1>8 DEF Answer
    <2> QED
      BY <1>8, <2>1 DEF Answer, Phase
  <1>9. CASE Refuse
    <2>1. pc \in {"notify", "poll"} /\ status = Pending
      BY <1>6, <1>9 DEF Refuse, Working
    <2>2. Phase = "called" /\ Phase' = "failed"
      BY <1>9, <2>1 DEF Refuse, Phase
    <2> QED
      BY <1>9, <2>2 DEF Refuse, Promise!Fail, Promise!Next, Phase
  <1>10. CASE Return
    <2>1. pc \in {"notify", "poll"}
      BY <1>6, <1>10 DEF Return
    <2> QED
      BY <1>10, <2>1, <1>6 DEF Return, Phase, Working
  <1>11. CASE UNCHANGED vars
    BY <1>11 DEF vars, Phase
  <1> QED
    BY <1>1, <1>2, <1>3, <1>4, <1>5, <1>7, <1>8, <1>9, <1>10, <1>11
    DEF Next, Driver, Device, Promise!Next

\* Whoever calls disk_read_sector or disk_write_sector sees one sector move, or
\* nothing and an error, however the device takes its steps.
THEOREM DriverImplementsDisk == Spec => ImplementsDisk
  <1>1. Promise!Spec <=> Promise!Init /\ [][Promise!Next]_<<Phase, header, content, memory, result>>
    BY DEF Promise!Spec, Phase
  <1> QED
    BY <1>1, PromiseInit, PromiseStep, InductiveInvariant, PTL DEF Spec, ImplementsDisk

-----------------------------------------------------------------------------
(* The SPI driver and its card by themselves *)

LEMMA Quotient ==
    ASSUME NEW s \in Nat, NEW b \in Nat \ {0}
    PROVE  (s * b) \div b = s
  OBVIOUS

LEMMA Fits ==
    ASSUME NEW a \in Nat, NEW b \in Nat \ {0}, NEW s \in 0 .. (a \div b) - 1
    PROVE  s \in Nat /\ s * b < a
  OBVIOUS

\* The address of a sector is the address of that sector: no bit of it is lost.
LEMMA AddressOfSector == \A s \in Card!CardSectors : Card!Address(s) \div BlockSize = s
  <1> SUFFICES ASSUME NEW s \in Card!CardSectors PROVE Card!Address(s) \div BlockSize = s
    OBVIOUS
  <1>1. s \in Nat /\ BlockSize \in Nat \ {0} /\ AddressSpace \in Nat /\ s * BlockSize < AddressSpace
    BY SdAssumption, Fits DEF Card!CardSectors
  <1>2. s * BlockSize \in Nat
    BY <1>1
  <1>3. Card!Address(s) = s * BlockSize
    BY <1>1, <1>2 DEF Card!Address
  <1> QED
    BY <1>1, <1>3, Quotient

LEMMA CardNumbers ==
    /\ Card!CrcSize \in Nat \ {0} /\ BlockSize \in Nat \ {0} /\ Polls \in Nat \ {0}
    /\ MaxDelay \in 0 .. Polls /\ MaxDelay <= Polls
  BY SdAssumption DEF Card!CrcSize

LEMMA LineBytes == Card!Idle = 255 /\ Card!Token = 254 /\ Card!Accepted = 0 /\ Card!Written = 5 /\ Card!Busy = 0
  BY DEF Card!Idle, Card!Token, Card!Accepted, Card!Written, Card!Busy

-----------------------------------------------------------------------------

LEMMA CardInitInvariant == Card!Init => Card!IInv
  <1> SUFFICES ASSUME Card!Init PROVE Card!IInv
    OBVIOUS
  <1>1. Card!TypeOK
    BY CardNumbers DEF Card!Init, Card!TypeOK
  <1>2. Card!Agreement /\ Card!Transfer
    BY DEF Card!Init, Card!Agreement, Card!Transfer
  <1> QED
    BY <1>1, <1>2 DEF Card!IInv

LEMMA CallInvariant ==
    ASSUME Card!IInv, NEW r \in Card!Requests, NEW v \in Card!Blocks, Card!Call(r, v)
    PROVE  Card!IInv'
  <1>1. Card!TypeOK'
    BY DEF Card!IInv, Card!Call, Card!TypeOK, Card!card
  <1>2. Card!Agreement' /\ Card!Transfer'
    BY DEF Card!IInv, Card!Call, Card!Agreement, Card!Transfer, Card!card
  <1> QED
    BY <1>1, <1>2 DEF Card!IInv

LEMMA CommandInvariant == Card!IInv /\ Card!Command => Card!IInv'
  <1> SUFFICES ASSUME Card!IInv, Card!Command PROVE Card!IInv'
    OBVIOUS
  <1> USE DEF Card!IInv
  <1>1. mode = "ready" /\ asked \in Card!Requests
    BY DEF Card!Command, Card!Agreement, Card!TypeOK
  <1>2. addressed' = asked
    <2>1. asked.sector \in Card!CardSectors
      BY <1>1 DEF Card!Requests
    <2>2. addressed' = [asked EXCEPT !.sector = Card!Address(asked.sector) \div BlockSize]
      BY <1>1 DEF Card!Command
    <2>3. Card!Address(asked.sector) \div BlockSize = asked.sector
      BY <2>1, AddressOfSector
    <2> QED
      BY <1>1, <2>2, <2>3 DEF Card!Requests
  <1>3. at' = "poll" /\ left' = Polls /\ mode' = "answer" /\ count' = 0
        /\ UNCHANGED <<asked, buffer, answer, latch, blocks>>
    BY <1>1 DEF Card!Command, Card!Become
  <1>4. Card!TypeOK'
    BY <1>1, <1>2, <1>3, CardNumbers DEF Card!TypeOK
  <1>5. Card!Agreement' /\ Card!Transfer'
    BY <1>2, <1>3, CardNumbers DEF Card!Agreement, Card!Transfer
  <1> QED
    BY <1>4, <1>5

LEMMA PollInvariant == Card!IInv /\ Card!Poll => Card!IInv'
  <1> SUFFICES ASSUME Card!IInv, Card!Poll PROVE Card!IInv'
    OBVIOUS
  <1> USE CardNumbers, LineBytes DEF Card!IInv
  <1>1. PICK in \in Card!Replies :
          /\ Card!Exchange(Card!Idle, in)
          /\ at' = IF Card!Answered(in) \/ left = 1 THEN Card!Behind ELSE "poll"
    BY DEF Card!Poll
  <1>2. at = "poll" /\ mode = "answer" /\ addressed = asked
        /\ left \in 1 .. Polls /\ count = Polls - left
    BY DEF Card!Poll, Card!Agreement
  <1>3. Card!Delay(Card!Idle, in) \/ Card!Answer(Card!Idle, in)
    BY <1>1, <1>2 DEF Card!Exchange, Card!Ready, Card!Access, Card!Send, Card!Crc, Card!Expect,
       Card!Take, Card!Check, Card!Accept, Card!Program
  <1>4. left' = left - 1 /\ UNCHANGED <<asked, buffer, answer, addressed, latch, blocks>>
    BY <1>3 DEF Card!Poll, Card!Delay, Card!Answer
  <1>5. asked.op \in {"read", "write"}
    BY DEF Card!TypeOK, Card!Requests
  <1>6. CASE Card!Answer(Card!Idle, in)
    <2>1. at' = Card!Behind
      BY <1>1, <1>6 DEF Card!Answer, Card!Answered
    <2>2. mode' = (IF asked.op = "read" THEN "access" ELSE "expect") /\ count' = 0
      BY <1>2, <1>6 DEF Card!Answer, Card!Become
    <2>3. Card!TypeOK'
      BY <1>2, <1>4, <1>5, <2>1, <2>2 DEF Card!TypeOK, Card!Behind
    <2>4. Card!Agreement' /\ Card!Transfer'
      BY <1>2, <1>4, <1>5, <2>1, <2>2 DEF Card!Agreement, Card!Transfer, Card!Behind
    <2> QED
      BY <2>3, <2>4
  <1>7. CASE Card!Delay(Card!Idle, in)
    <2>1. mode' = "answer" /\ count' = count + 1 /\ count < MaxDelay
      BY <1>7 DEF Card!Delay, Card!Become
    <2>2. at' = IF left = 1 THEN Card!Behind ELSE "poll"
      BY <1>1, <1>7 DEF Card!Delay, Card!Answered
    <2>3. Card!TypeOK'
      BY <1>2, <1>4, <1>5, <2>1, <2>2 DEF Card!TypeOK, Card!Behind
    <2>4. Card!Agreement' /\ Card!Transfer'
      BY <1>2, <1>4, <1>5, <2>1, <2>2 DEF Card!Agreement, Card!Transfer, Card!Behind, Card!Overdue
    <2> QED
      BY <2>3, <2>4
  <1> QED
    BY <1>3, <1>6, <1>7

\* An overdue answer comes with the next byte.
LEMMA LateAnswer ==
    ASSUME Card!Overdue, NEW out, NEW in, Card!Exchange(out, in)
    PROVE  Card!Answer(out, in)
  <1>1. mode = "answer" /\ ~(count < MaxDelay)
    BY CardNumbers DEF Card!Overdue
  <1> QED
    BY <1>1 DEF Card!Exchange, Card!Ready, Card!Delay, Card!Access, Card!Send, Card!Crc,
       Card!Expect, Card!Take, Card!Check, Card!Accept, Card!Program

LEMMA WaitTokenInvariant == Card!IInv /\ Card!WaitToken => Card!IInv'
  <1> SUFFICES ASSUME Card!IInv, Card!WaitToken PROVE Card!IInv'
    OBVIOUS
  <1> USE CardNumbers, LineBytes DEF Card!IInv
  <1>1. PICK in \in Card!Replies :
          /\ Card!Exchange(Card!Idle, in)
          /\ IF in = Card!Token THEN at' = "data" /\ left' = BlockSize ELSE UNCHANGED <<at, left>>
    BY DEF Card!WaitToken
  <1>2. at = "token" /\ addressed = asked /\ asked.op = "read"
        /\ UNCHANGED <<asked, buffer, answer>>
    BY DEF Card!WaitToken, Card!Agreement
  <1>3. CASE Card!Overdue
    <2>1. Card!Answer(Card!Idle, in)
      BY <1>1, <1>3, LateAnswer
    <2>2. UNCHANGED <<at, left, addressed, latch, blocks>> /\ mode' = "access" /\ count' = 0
      BY <1>1, <1>2, <2>1 DEF Card!Answer, Card!Become
    <2>3. Card!TypeOK'
      BY <1>2, <2>2 DEF Card!TypeOK
    <2>4. Card!Agreement' /\ Card!Transfer'
      BY <1>2, <2>2 DEF Card!Agreement, Card!Transfer
    <2> QED
      BY <2>3, <2>4
  <1>4. CASE mode = "access"
    <2>1. Card!Access(Card!Idle, in)
      BY <1>1, <1>4 DEF Card!Exchange, Card!Ready, Card!Delay, Card!Answer, Card!Send, Card!Crc,
         Card!Expect, Card!Take, Card!Check, Card!Accept, Card!Program
    <2>2. CASE in = Card!Token
      <3>1. /\ at' = "data" /\ left' = BlockSize /\ mode' = "send" /\ count' = 1
            /\ UNCHANGED <<addressed, latch, blocks>>
        BY <1>1, <2>1, <2>2 DEF Card!Access, Card!Become
      <3>2. Card!TypeOK'
        BY <1>2, <3>1 DEF Card!TypeOK
      <3>3. Card!Agreement' /\ Card!Transfer'
        BY <1>2, <3>1 DEF Card!Agreement, Card!Transfer, Card!Together
      <3> QED
        BY <3>2, <3>3
    <2>3. CASE in # Card!Token
      <3>1. UNCHANGED <<at, left, mode, count, addressed, latch, blocks>>
        BY <1>1, <2>1, <2>3 DEF Card!Access, Card!Become
      <3>2. Card!TypeOK'
        BY <1>2, <3>1 DEF Card!TypeOK
      <3>3. Card!Agreement' /\ Card!Transfer'
        BY <1>2, <1>4, <3>1 DEF Card!Agreement, Card!Transfer
      <3> QED
        BY <3>2, <3>3
    <2> QED
      BY <2>2, <2>3
  <1> QED
    BY <1>2, <1>3, <1>4 DEF Card!Agreement

LEMMA ReadByteInvariant == Card!IInv /\ Card!ReadByte => Card!IInv'
  <1> SUFFICES ASSUME Card!IInv, Card!ReadByte PROVE Card!IInv'
    OBVIOUS
  <1> USE CardNumbers, LineBytes DEF Card!IInv
  <1>1. PICK in \in Card!Replies :
          /\ Card!Exchange(Card!Idle, in)
          /\ buffer' = [buffer EXCEPT ![Card!Index] = in]
    BY DEF Card!ReadByte
  <1>2. /\ at = "data" /\ addressed = asked /\ asked.op = "read" /\ mode = "send"
        /\ left \in 1 .. BlockSize /\ count = BlockSize + 1 - left
        /\ \A i \in 1 .. BlockSize : i < count => buffer[i] = blocks[asked.sector][i]
    BY DEF Card!ReadByte, Card!Agreement, Card!Transfer, Card!Together
  <1>3. Card!Send(Card!Idle, in)
    BY <1>1, <1>2 DEF Card!Exchange, Card!Ready, Card!Delay, Card!Answer, Card!Access, Card!Crc,
       Card!Expect, Card!Take, Card!Check, Card!Accept, Card!Program
  <1>4. UNCHANGED <<asked, answer, addressed, latch, blocks>>
    BY <1>3 DEF Card!ReadByte, Card!Send
  <1>5. in = blocks[asked.sector][count] /\ Card!Index = count /\ count \in 1 .. BlockSize
    BY <1>2, <1>3 DEF Card!Send, Card!Index
  <1>6. asked \in Card!Requests /\ asked.sector \in Card!CardSectors /\ blocks[asked.sector] \in Card!Blocks
    BY DEF Card!TypeOK, Card!Requests
  <1>7. buffer \in Card!Blocks /\ buffer' = [buffer EXCEPT ![count] = blocks[asked.sector][count]]
    BY <1>1, <1>5 DEF Card!TypeOK
  <1>8. buffer' \in Card!Blocks
    BY <1>5, <1>6, <1>7 DEF Card!Blocks
  <1>9. \A i \in 1 .. BlockSize : i < count + 1 => buffer'[i] = blocks[asked.sector][i]
    BY <1>2, <1>5, <1>7 DEF Card!Blocks
  <1>10. CASE left = 1
    <2>1. at' = "crc" /\ left' = Card!CrcSize /\ mode' = "crc" /\ count' = 1
      BY <1>2, <1>3, <1>10 DEF Card!ReadByte, Card!Send, Card!Become
    <2>2. buffer' = blocks[asked.sector]
      <3>1. \A i \in 1 .. BlockSize : buffer'[i] = blocks[asked.sector][i]
        BY <1>2, <1>9, <1>10
      <3> QED
        BY <1>6, <1>8, <3>1 DEF Card!Blocks
    <2>3. Card!TypeOK'
      BY <1>4, <1>8, <2>1 DEF Card!TypeOK
    <2>4. Card!Agreement' /\ Card!Transfer'
      BY <1>2, <1>4, <2>1, <2>2 DEF Card!Agreement, Card!Transfer, Card!Together
    <2> QED
      BY <2>3, <2>4
  <1>11. CASE left # 1
    <2>1. at' = "data" /\ left' = left - 1 /\ mode' = "send" /\ count' = count + 1
      BY <1>2, <1>3, <1>11 DEF Card!ReadByte, Card!Send, Card!Become
    <2>2. Card!TypeOK'
      BY <1>2, <1>4, <1>8, <1>11, <2>1 DEF Card!TypeOK
    <2>3. Card!Agreement'
      BY <1>2, <1>4, <2>1 DEF Card!Agreement
    <2>4. Card!Transfer'
      BY <1>2, <1>4, <1>9, <1>11, <2>1 DEF Card!Transfer, Card!Together
    <2> QED
      BY <2>2, <2>3, <2>4
  <1> QED
    BY <1>10, <1>11

LEMMA ReadCrcInvariant == Card!IInv /\ Card!ReadCrc => Card!IInv'
  <1> SUFFICES ASSUME Card!IInv, Card!ReadCrc PROVE Card!IInv'
    OBVIOUS
  <1> USE CardNumbers, LineBytes DEF Card!IInv
  <1>1. PICK in \in Card!Replies : Card!Exchange(Card!Idle, in)
    BY DEF Card!ReadCrc
  <1>2. /\ at = "crc" /\ addressed = asked /\ asked.op = "read" /\ mode = "crc"
        /\ left \in 1 .. Card!CrcSize /\ count = Card!CrcSize + 1 - left
        /\ buffer = blocks[asked.sector]
    BY DEF Card!ReadCrc, Card!Agreement, Card!Transfer, Card!Together
  <1>3. Card!Crc(Card!Idle, in)
    BY <1>1, <1>2 DEF Card!Exchange, Card!Ready, Card!Delay, Card!Answer, Card!Access, Card!Send,
       Card!Expect, Card!Take, Card!Check, Card!Accept, Card!Program
  <1>4. UNCHANGED <<asked, buffer, addressed, latch, blocks>> /\ left' = left - 1
    BY <1>3 DEF Card!ReadCrc, Card!Crc
  <1>5. CASE left = 1
    <2>1. at' = "idle" /\ answer' = 0 /\ mode' = "ready" /\ count' = 0
      BY <1>2, <1>3, <1>5 DEF Card!ReadCrc, Card!Crc, Card!Become
    <2>2. Card!TypeOK'
      BY <1>4, <1>5, <2>1 DEF Card!TypeOK
    <2>3. Card!Agreement' /\ Card!Transfer'
      BY <2>1 DEF Card!Agreement, Card!Transfer
    <2> QED
      BY <2>2, <2>3
  <1>6. CASE left # 1
    <2>1. at' = "crc" /\ answer' = answer /\ mode' = "crc" /\ count' = count + 1
      BY <1>2, <1>3, <1>6 DEF Card!ReadCrc, Card!Crc, Card!Become
    <2>2. Card!TypeOK'
      BY <1>2, <1>4, <1>6, <2>1 DEF Card!TypeOK
    <2>3. Card!Agreement' /\ Card!Transfer'
      BY <1>2, <1>4, <1>6, <2>1 DEF Card!Agreement, Card!Transfer, Card!Together
    <2> QED
      BY <2>2, <2>3
  <1> QED
    BY <1>5, <1>6

LEMMA PadInvariant == Card!IInv /\ Card!Pad => Card!IInv'
  <1> SUFFICES ASSUME Card!IInv, Card!Pad PROVE Card!IInv'
    OBVIOUS
  <1> USE CardNumbers, LineBytes DEF Card!IInv
  <1>1. PICK in \in Card!Replies : Card!Exchange(Card!Idle, in)
    BY DEF Card!Pad
  <1>2. /\ at = "pad" /\ at' = "start" /\ addressed = asked /\ asked.op = "write"
        /\ UNCHANGED <<left, asked, buffer, answer>>
    BY DEF Card!Pad, Card!Agreement
  <1>3. mode' = "expect" /\ count' \in {0, count} /\ UNCHANGED <<addressed, latch, blocks>>
    <2>1. CASE Card!Overdue
      <3>1. Card!Answer(Card!Idle, in)
        BY <1>1, <2>1, LateAnswer
      <3> QED
        BY <1>2, <3>1 DEF Card!Answer, Card!Become
    <2>2. CASE mode = "expect"
      <3>1. Card!Expect(Card!Idle, in)
        BY <1>1, <2>2 DEF Card!Exchange, Card!Ready, Card!Delay, Card!Answer, Card!Access,
           Card!Send, Card!Crc, Card!Take, Card!Check, Card!Accept, Card!Program
      <3> QED
        BY <2>2, <3>1 DEF Card!Expect, Card!Become
    <2> QED
      BY <1>2, <2>1, <2>2 DEF Card!Agreement
  <1>4. Card!TypeOK'
    BY <1>2, <1>3 DEF Card!TypeOK
  <1>5. Card!Agreement' /\ Card!Transfer'
    BY <1>2, <1>3 DEF Card!Agreement, Card!Transfer
  <1> QED
    BY <1>4, <1>5

LEMMA StartBlockInvariant == Card!IInv /\ Card!StartBlock => Card!IInv'
  <1> SUFFICES ASSUME Card!IInv, Card!StartBlock PROVE Card!IInv'
    OBVIOUS
  <1> USE CardNumbers, LineBytes DEF Card!IInv
  <1>1. PICK in \in Card!Replies : Card!Exchange(Card!Token, in)
    BY DEF Card!StartBlock
  <1>2. /\ at = "start" /\ at' = "send" /\ left' = BlockSize
        /\ addressed = asked /\ asked.op = "write" /\ mode = "expect"
        /\ UNCHANGED <<asked, buffer, answer>>
    BY DEF Card!StartBlock, Card!Agreement
  <1>3. Card!Expect(Card!Token, in)
    BY <1>1, <1>2 DEF Card!Exchange, Card!Ready, Card!Delay, Card!Answer, Card!Access, Card!Send,
       Card!Crc, Card!Take, Card!Check, Card!Accept, Card!Program
  <1>4. mode' = "take" /\ count' = 1 /\ UNCHANGED <<addressed, latch, blocks>>
    BY <1>3 DEF Card!Expect, Card!Become
  <1>5. Card!TypeOK'
    BY <1>2, <1>4 DEF Card!TypeOK
  <1>6. Card!Agreement' /\ Card!Transfer'
    BY <1>2, <1>4 DEF Card!Agreement, Card!Transfer, Card!Together
  <1> QED
    BY <1>5, <1>6

LEMMA WriteByteInvariant == Card!IInv /\ Card!WriteByte => Card!IInv'
  <1> SUFFICES ASSUME Card!IInv, Card!WriteByte PROVE Card!IInv'
    OBVIOUS
  <1> USE CardNumbers, LineBytes DEF Card!IInv
  <1>1. PICK in \in Card!Replies : Card!Exchange(buffer[Card!Index], in)
    BY DEF Card!WriteByte
  <1>2. /\ at = "send" /\ addressed = asked /\ asked.op = "write" /\ mode = "take"
        /\ left \in 1 .. BlockSize /\ count = BlockSize + 1 - left
        /\ \A i \in 1 .. BlockSize : i < count => latch[i] = buffer[i]
    BY DEF Card!WriteByte, Card!Agreement, Card!Transfer, Card!Together
  <1>3. Card!Take(buffer[Card!Index], in)
    BY <1>1, <1>2 DEF Card!Exchange, Card!Ready, Card!Delay, Card!Answer, Card!Access, Card!Send,
       Card!Crc, Card!Expect, Card!Check, Card!Accept, Card!Program
  <1>4. UNCHANGED <<asked, buffer, answer, addressed, blocks>>
    BY <1>3 DEF Card!WriteByte, Card!Take
  <1>5. Card!Index = count /\ count \in 1 .. BlockSize
    BY <1>2 DEF Card!Index
  <1>6. latch \in Card!Blocks /\ buffer \in Card!Blocks /\ latch' = [latch EXCEPT ![count] = buffer[count]]
    BY <1>3, <1>5 DEF Card!Take, Card!TypeOK
  <1>7. latch' \in Card!Blocks
    BY <1>5, <1>6 DEF Card!Blocks
  <1>8. \A i \in 1 .. BlockSize : i < count + 1 => latch'[i] = buffer[i]
    BY <1>2, <1>5, <1>6 DEF Card!Blocks
  <1>9. CASE left = 1
    <2>1. at' = "check" /\ left' = Card!CrcSize /\ mode' = "check" /\ count' = 1
      BY <1>2, <1>3, <1>9 DEF Card!WriteByte, Card!Take, Card!Become
    <2>2. latch' = buffer
      <3>1. \A i \in 1 .. BlockSize : latch'[i] = buffer[i]
        BY <1>2, <1>8, <1>9
      <3> QED
        BY <1>6, <1>7, <3>1 DEF Card!Blocks
    <2>3. Card!TypeOK'
      BY <1>4, <1>7, <2>1 DEF Card!TypeOK
    <2>4. Card!Agreement' /\ Card!Transfer'
      BY <1>2, <1>4, <2>1, <2>2 DEF Card!Agreement, Card!Transfer, Card!Together
    <2> QED
      BY <2>3, <2>4
  <1>10. CASE left # 1
    <2>1. at' = "send" /\ left' = left - 1 /\ mode' = "take" /\ count' = count + 1
      BY <1>2, <1>3, <1>10 DEF Card!WriteByte, Card!Take, Card!Become
    <2>2. Card!TypeOK'
      BY <1>2, <1>4, <1>7, <1>10, <2>1 DEF Card!TypeOK
    <2>3. Card!Agreement'
      BY <1>2, <1>4, <2>1 DEF Card!Agreement
    <2>4. Card!Transfer'
      BY <1>2, <1>4, <1>8, <1>10, <2>1 DEF Card!Transfer, Card!Together
    <2> QED
      BY <2>2, <2>3, <2>4
  <1> QED
    BY <1>9, <1>10

LEMMA WriteCrcStep ==
    ASSUME Card!IInv, Card!WriteCrc
    PROVE  /\ at = "check" /\ mode = "check" /\ addressed = asked /\ asked.op = "write"
           /\ latch = buffer /\ left \in 1 .. Card!CrcSize /\ left' = left - 1
           /\ UNCHANGED <<asked, buffer, answer, addressed, latch>>
           /\ left = 1 => /\ at' = "response" /\ mode' = "accept" /\ count' = 0
                          /\ blocks' = [blocks EXCEPT ![asked.sector] = buffer]
           /\ left # 1 => /\ at' = "check" /\ mode' = "check" /\ count' = count + 1
                          /\ count = Card!CrcSize + 1 - left /\ blocks' = blocks
  <1> USE CardNumbers, LineBytes DEF Card!IInv
  <1>1. PICK in \in Card!Replies : Card!Exchange(Card!Idle, in)
    BY DEF Card!WriteCrc
  <1>2. /\ at = "check" /\ addressed = asked /\ asked.op = "write" /\ mode = "check"
        /\ left \in 1 .. Card!CrcSize /\ count = Card!CrcSize + 1 - left /\ latch = buffer
    BY DEF Card!WriteCrc, Card!Agreement, Card!Transfer, Card!Together
  <1>3. Card!Check(Card!Idle, in)
    BY <1>1, <1>2 DEF Card!Exchange, Card!Ready, Card!Delay, Card!Answer, Card!Access, Card!Send,
       Card!Crc, Card!Expect, Card!Take, Card!Accept, Card!Program
  <1>4. left' = left - 1 /\ UNCHANGED <<asked, buffer, answer, addressed, latch>>
    BY <1>3 DEF Card!WriteCrc, Card!Check
  <1>5. left = 1 => /\ at' = "response" /\ mode' = "accept" /\ count' = 0
                    /\ blocks' = [blocks EXCEPT ![asked.sector] = buffer]
    BY <1>2, <1>3 DEF Card!WriteCrc, Card!Check, Card!Become
  <1>6. left # 1 => at' = "check" /\ mode' = "check" /\ count' = count + 1 /\ blocks' = blocks
    BY <1>2, <1>3 DEF Card!WriteCrc, Card!Check, Card!Become
  <1> QED
    BY <1>2, <1>4, <1>5, <1>6

LEMMA WriteCrcInvariant == Card!IInv /\ Card!WriteCrc => Card!IInv'
  <1> SUFFICES ASSUME Card!IInv, Card!WriteCrc PROVE Card!IInv'
    OBVIOUS
  <1> USE CardNumbers DEF Card!IInv
  <1>1. asked \in Card!Requests /\ asked.sector \in Card!CardSectors /\ buffer \in Card!Blocks
        /\ blocks \in [Card!CardSectors -> Card!Blocks]
    BY DEF Card!TypeOK, Card!Requests
  <1>2. CASE left = 1
    <2>1. blocks' \in [Card!CardSectors -> Card!Blocks]
      BY <1>1, <1>2, WriteCrcStep
    <2>2. Card!TypeOK'
      BY <1>2, <2>1, WriteCrcStep DEF Card!TypeOK
    <2>3. Card!Agreement' /\ Card!Transfer'
      BY <1>2, WriteCrcStep DEF Card!Agreement, Card!Transfer
    <2> QED
      BY <2>2, <2>3
  <1>3. CASE left # 1
    <2>1. Card!TypeOK'
      BY <1>3, WriteCrcStep DEF Card!TypeOK
    <2>2. Card!Agreement' /\ Card!Transfer'
      BY <1>3, WriteCrcStep DEF Card!Agreement, Card!Transfer, Card!Together
    <2> QED
      BY <2>1, <2>2
  <1> QED
    BY <1>2, <1>3

LEMMA ResponseInvariant == Card!IInv /\ Card!Response => Card!IInv'
  <1> SUFFICES ASSUME Card!IInv, Card!Response PROVE Card!IInv'
    OBVIOUS
  <1> USE CardNumbers, LineBytes DEF Card!IInv
  <1>1. PICK in \in Card!Replies : Card!Exchange(Card!Idle, in)
    BY DEF Card!Response
  <1>2. /\ at = "response" /\ at' = "busy" /\ addressed = asked /\ asked.op = "write"
        /\ mode = "accept" /\ UNCHANGED <<left, asked, buffer, answer>>
    BY DEF Card!Response, Card!Agreement
  <1>3. Card!Accept(Card!Idle, in)
    BY <1>1, <1>2 DEF Card!Exchange, Card!Ready, Card!Delay, Card!Answer, Card!Access, Card!Send,
       Card!Crc, Card!Expect, Card!Take, Card!Check, Card!Program
  <1>4. mode' = "busy" /\ count' = 0 /\ UNCHANGED <<addressed, latch, blocks>>
    BY <1>3 DEF Card!Accept, Card!Become
  <1>5. Card!TypeOK'
    BY <1>2, <1>4 DEF Card!TypeOK
  <1>6. Card!Agreement' /\ Card!Transfer'
    BY <1>2, <1>4 DEF Card!Agreement, Card!Transfer
  <1> QED
    BY <1>5, <1>6

LEMMA WaitReadyInvariant == Card!IInv /\ Card!WaitReady => Card!IInv'
  <1> SUFFICES ASSUME Card!IInv, Card!WaitReady PROVE Card!IInv'
    OBVIOUS
  <1> USE CardNumbers, LineBytes DEF Card!IInv
  <1>1. PICK in \in Card!Replies :
          /\ Card!Exchange(Card!Idle, in)
          /\ IF in = Card!Busy THEN UNCHANGED <<at, answer>> ELSE at' = "idle" /\ answer' = 0
    BY DEF Card!WaitReady
  <1>2. /\ at = "busy" /\ addressed = asked /\ asked.op = "write" /\ mode = "busy"
        /\ UNCHANGED <<left, asked, buffer>>
    BY DEF Card!WaitReady, Card!Agreement
  <1>3. Card!Program(Card!Idle, in)
    BY <1>1, <1>2 DEF Card!Exchange, Card!Ready, Card!Delay, Card!Answer, Card!Access, Card!Send,
       Card!Crc, Card!Expect, Card!Take, Card!Check, Card!Accept
  <1>4. /\ UNCHANGED <<addressed, latch, blocks>>
        /\ \/ at' = "idle" /\ answer' = 0 /\ mode' = "ready" /\ count' = 0
           \/ UNCHANGED <<at, answer, mode, count>>
    BY <1>1, <1>3 DEF Card!Program, Card!Become
  <1>5. Card!TypeOK'
    BY <1>2, <1>4 DEF Card!TypeOK
  <1>6. Card!Agreement' /\ Card!Transfer'
    BY <1>2, <1>4 DEF Card!Agreement, Card!Transfer
  <1> QED
    BY <1>5, <1>6

LEMMA CardStutter == Card!IInv /\ UNCHANGED Card!vars => Card!IInv'
  BY DEF Card!IInv, Card!vars, Card!driver, Card!card, Card!TypeOK, Card!Agreement, Card!Transfer,
     Card!Together, Card!Overdue

LEMMA CardStepInvariant == Card!IInv /\ [Card!Next]_Card!vars => Card!IInv'
  BY CallInvariant, CommandInvariant, PollInvariant, WaitTokenInvariant, ReadByteInvariant,
     ReadCrcInvariant, PadInvariant, StartBlockInvariant, WriteByteInvariant, WriteCrcInvariant,
     ResponseInvariant, WaitReadyInvariant, CardStutter
  DEF Card!Next, Card!Driver

LEMMA CardInvariant == Card!Spec => []Card!IInv
  BY CardInitInvariant, CardStepInvariant, PTL DEF Card!Spec

\* A command that is not answered is given up, and no count of the driver or
\* the card leaves its range.
THEOREM CardTypeCorrect == Card!Spec => []Card!TypeOK
  BY CardInvariant, PTL DEF Card!IInv

\* Driver and card agree on what every byte is: whatever the data, and however
\* late the answer, no call leaves a byte behind for the next.
THEOREM StaysInStep == Card!Spec => []Card!InStep
  <1>1. Card!IInv => Card!InStep
    BY CardNumbers DEF Card!IInv, Card!Agreement, Card!Transfer, Card!Together, Card!InStep
  <1> QED
    BY <1>1, CardInvariant, PTL

-----------------------------------------------------------------------------
(* The refinement *)

\* The phase of the call and its buffer, as Disk sees them.
CardPhase == IF at = "idle" THEN "idle" ELSE IF Card!Moved THEN "ok" ELSE "called"

CardBuffer == IF asked.op = "read" /\ at # "idle" /\ ~Card!Moved
          THEN CHOOSE v \in Card!Blocks : TRUE ELSE buffer

cardDisk == <<CardPhase, asked, blocks, CardBuffer, answer>>

\* There is a block to stand for what a read has not got yet.
LEMMA SomeBlock == (CHOOSE v \in Card!Blocks : TRUE) \in Card!Blocks
  <1>1. PICK b \in Bytes : TRUE
    BY SdAssumption
  <1>2. [i \in 1 .. BlockSize |-> b] \in Card!Blocks
    BY DEF Card!Blocks
  <1> QED
    BY <1>2

LEMMA CardPromiseInit == Card!Init => Card!Promise!Init
  BY DEF Card!Init, Card!Promise!Init, Card!Promise!Requests, Card!Requests

\* Only the last byte of a write changes the disk.
LEMMA DiskKept ==
    ASSUME NEW out, NEW in, Card!Exchange(out, in), mode # "check"
    PROVE  blocks' = blocks
  BY DEF Card!Exchange, Card!Ready, Card!Delay, Card!Answer, Card!Access, Card!Send, Card!Crc,
     Card!Expect, Card!Take, Card!Check, Card!Accept, Card!Program, Card!card

\* Up to the last byte of the data nothing has moved.
LEMMA Unmoved ==
    ASSUME at \in {"command", "poll", "token", "data", "pad", "start", "send", "check"},
           at' \in {"command", "poll", "token", "data", "pad", "start", "send", "check"},
           asked.op = "read" \/ buffer' = buffer,
           UNCHANGED <<asked, blocks, answer>>
    PROVE  UNCHANGED cardDisk
  BY DEF cardDisk, CardPhase, CardBuffer, Card!Moved

LEMMA CardPromiseStep == Card!IInv /\ Card!IInv' /\ [Card!Next]_Card!vars => [Card!Promise!Next]_cardDisk
  <1> SUFFICES ASSUME Card!IInv, Card!IInv', [Card!Next]_Card!vars
               PROVE  Card!Promise!Next \/ UNCHANGED cardDisk
    OBVIOUS
  <1>1. ASSUME NEW r \in Card!Requests, NEW v \in Card!Blocks, Card!Call(r, v) PROVE Card!Promise!Next
    <2>1. CardPhase = "idle" /\ CardPhase' = "called" /\ UNCHANGED <<blocks, answer>>
      BY <1>1 DEF Card!Call, CardPhase, Card!Moved, Card!card
    <2>2. asked' \in Card!Promise!Requests /\ CardBuffer' \in Card!Blocks
      BY <1>1, SomeBlock DEF Card!Call, CardBuffer, Card!Promise!Requests, Card!Requests
    <2> QED
      BY <2>1, <2>2 DEF Card!Promise!Next, Card!Promise!Call, CardPhase, CardBuffer
  <1>2. CASE Card!Command
    BY <1>2, Unmoved DEF Card!Command
  <1>3. CASE Card!Poll
    <2>1. mode # "check" /\ UNCHANGED <<asked, buffer, answer>> /\ at = "poll"
      BY <1>3 DEF Card!Poll, Card!IInv, Card!Agreement
    <2>2. blocks' = blocks /\ at' \in {"poll", "token", "pad"}
      BY <1>3, <2>1, DiskKept DEF Card!Poll, Card!Behind
    <2> QED
      BY <2>1, <2>2, Unmoved
  <1>4. CASE Card!WaitToken
    <2>1. mode # "check" /\ UNCHANGED <<asked, buffer, answer>> /\ at = "token"
      BY <1>4 DEF Card!WaitToken, Card!IInv, Card!Agreement, Card!Overdue
    <2>2. blocks' = blocks /\ at' \in {"token", "data"}
      BY <1>4, <2>1, DiskKept DEF Card!WaitToken
    <2> QED
      BY <2>1, <2>2, Unmoved
  <1>5. CASE Card!ReadByte
    <2>1. at = "data" /\ mode = "send" /\ asked.op = "read" /\ UNCHANGED <<asked, answer>>
      BY <1>5 DEF Card!ReadByte, Card!IInv, Card!Agreement, Card!Transfer
    <2>2. blocks' = blocks
      BY <1>5, <2>1, DiskKept DEF Card!ReadByte
    <2>3. CASE left = 1
      <3>1. at' = "crc"
        BY <1>5, <2>3 DEF Card!ReadByte
      <3>2. buffer' = blocks[asked.sector]
        BY <2>1, <2>2, <3>1 DEF Card!IInv, Card!Transfer
      <3>3. CardPhase = "called" /\ CardPhase' = "ok" /\ CardBuffer' = buffer'
        BY <2>1, <3>1 DEF CardPhase, CardBuffer, Card!Moved
      <3> QED
        BY <2>1, <2>2, <3>2, <3>3 DEF Card!Promise!Next, Card!Promise!Move, CardPhase, CardBuffer
    <2>4. CASE left # 1
      <3>1. at' = "data"
        BY <1>5, <2>1, <2>4 DEF Card!ReadByte
      <3> QED
        BY <2>1, <2>2, <3>1, Unmoved
    <2> QED
      BY <2>3, <2>4
  <1>6. CASE Card!ReadCrc
    <2>1. at = "crc" /\ mode = "crc" /\ asked.op = "read" /\ UNCHANGED <<asked, buffer>>
      BY <1>6 DEF Card!ReadCrc, Card!IInv, Card!Agreement, Card!Transfer
    <2>2. blocks' = blocks
      BY <1>6, <2>1, DiskKept DEF Card!ReadCrc
    <2>3. (at' = "idle" /\ answer' = 0) \/ UNCHANGED <<at, answer>>
      BY <1>6 DEF Card!ReadCrc
    <2> QED
      BY <2>1, <2>2, <2>3 DEF Card!Promise!Next, Card!Promise!Return, cardDisk, CardPhase,
         CardBuffer, Card!Moved
  <1>7. CASE Card!Pad
    <2>1. at = "pad" /\ at' = "start" /\ mode # "check" /\ UNCHANGED <<asked, buffer, answer>>
      BY <1>7 DEF Card!Pad, Card!IInv, Card!Agreement, Card!Overdue
    <2>2. blocks' = blocks
      BY <1>7, <2>1, DiskKept DEF Card!Pad
    <2> QED
      BY <2>1, <2>2, Unmoved
  <1>8. CASE Card!StartBlock
    <2>1. at = "start" /\ at' = "send" /\ mode # "check" /\ UNCHANGED <<asked, buffer, answer>>
      BY <1>8 DEF Card!StartBlock, Card!IInv, Card!Agreement
    <2>2. blocks' = blocks
      BY <1>8, <2>1, DiskKept DEF Card!StartBlock
    <2> QED
      BY <2>1, <2>2, Unmoved
  <1>9. CASE Card!WriteByte
    <2>1. /\ at = "send" /\ at' \in {"send", "check"} /\ mode # "check"
          /\ UNCHANGED <<asked, buffer, answer>>
      BY <1>9 DEF Card!WriteByte, Card!IInv, Card!Transfer
    <2>2. blocks' = blocks
      BY <1>9, <2>1, DiskKept DEF Card!WriteByte
    <2> QED
      BY <2>1, <2>2, Unmoved
  <1>10. CASE Card!WriteCrc
    <2>1. CASE left = 1
      <3>1. /\ at = "check" /\ at' = "response" /\ asked.op = "write"
            /\ blocks' = [blocks EXCEPT ![asked.sector] = buffer]
            /\ UNCHANGED <<asked, buffer, answer>>
        BY <1>10, <2>1, WriteCrcStep
      <3>2. CardPhase = "called" /\ CardPhase' = "ok" /\ CardBuffer = buffer /\ CardBuffer' = CardBuffer
        BY <3>1 DEF CardPhase, CardBuffer, Card!Moved
      <3> QED
        BY <3>1, <3>2 DEF Card!Promise!Next, Card!Promise!Move, CardPhase, CardBuffer
    <2>2. CASE left # 1
      <3>1. /\ at = "check" /\ at' = "check"
            /\ UNCHANGED <<asked, buffer, answer, blocks>>
        BY <1>10, <2>2, WriteCrcStep
      <3> QED
        BY <3>1, Unmoved
    <2> QED
      BY <2>1, <2>2
  <1>11. CASE Card!Response
    <2>1. /\ at = "response" /\ at' = "busy" /\ mode # "check"
          /\ UNCHANGED <<asked, buffer, answer>>
      BY <1>11 DEF Card!Response, Card!IInv, Card!Agreement
    <2>2. blocks' = blocks
      BY <1>11, <2>1, DiskKept DEF Card!Response
    <2> QED
      BY <2>1, <2>2 DEF cardDisk, CardPhase, CardBuffer, Card!Moved
  <1>12. CASE Card!WaitReady
    <2>1. at = "busy" /\ mode # "check" /\ UNCHANGED <<asked, buffer>>
      BY <1>12 DEF Card!WaitReady, Card!IInv, Card!Agreement
    <2>2. blocks' = blocks
      BY <1>12, <2>1, DiskKept DEF Card!WaitReady
    <2>3. (at' = "idle" /\ answer' = 0) \/ UNCHANGED <<at, answer>>
      BY <1>12 DEF Card!WaitReady
    <2> QED
      BY <2>1, <2>2, <2>3 DEF Card!Promise!Next, Card!Promise!Return, cardDisk, CardPhase,
         CardBuffer, Card!Moved
  <1>13. CASE UNCHANGED Card!vars
    BY <1>13 DEF Card!vars, Card!driver, Card!card, cardDisk, CardPhase, CardBuffer, Card!Moved
  <1> QED
    BY <1>1, <1>2, <1>3, <1>4, <1>5, <1>6, <1>7, <1>8, <1>9, <1>10, <1>11, <1>12, <1>13
    DEF Card!Next, Card!Driver

\* For its callers the driver with its card is a disk: a call moves one sector,
\* all of it and no other, and says so.
THEOREM CardDriverImplementsDisk == Card!Spec => Card!CardImplementsDisk
  <1>1. Card!Promise!Spec <=> Card!Promise!Init /\ [][Card!Promise!Next]_cardDisk
    BY DEF Card!Promise!Spec, cardDisk, CardPhase, CardBuffer
  <1> QED
    BY <1>1, CardPromiseInit, CardPromiseStep, CardInvariant, PTL DEF Card!Spec,
       Card!CardImplementsDisk

-----------------------------------------------------------------------------
(* The kernel with all three drivers *)

HostProofs == INSTANCE SdhciProofs WITH
    buffer <- window, status <- bits, work <- doing, content <- sectors

\* The behaviours of the kernel are behaviours of the VirtIO driver.
LEMMA StorageRunsVirtio == StorageSpec => Spec
  <1>1. StorageInit => Init
    BY DEF StorageInit
  <1>2. [StorageNext]_all => [Next]_vars
    BY DEF StorageNext, Find, Dispatch, OnVirtio, OnCard, OnHost, all
  <1> QED
    BY <1>1, <1>2, PTL DEF StorageSpec, Spec

\* They are behaviours of the SPI driver and its card.
LEMMA StorageRunsCard == StorageSpec => Card!Spec
  <1>1. StorageInit => Card!Init
    BY DEF StorageInit
  <1>2. [StorageNext]_all => [Card!Next]_Card!vars
    <2>1. UNCHANGED sd => UNCHANGED Card!vars
      BY DEF sd, Card!vars, Card!driver, Card!card
    <2> QED
      BY <2>1 DEF StorageNext, Find, Dispatch, OnVirtio, OnCard, OnHost, all
  <1> QED
    BY <1>1, <1>2, PTL DEF StorageSpec, Card!Spec

\* They are behaviours of the SDHCI driver, its controller and its card.
LEMMA StorageRunsHost == StorageSpec => HostProofs!Spec
  <1>1. StorageInit => HostProofs!Init
    BY DEF StorageInit, Host!Init, HostProofs!Init,
      Host!Requests, HostProofs!Requests, Host!Blocks, HostProofs!Blocks,
      Host!CardSectors, HostProofs!CardSectors, Host!AllOn, HostProofs!AllOn
  <1>2. [StorageNext]_all => [HostProofs!Next]_HostProofs!vars
    <2>1. Host!Next => HostProofs!Next
      BY DEF Host!Next, HostProofs!Next,
        Host!Blocks, HostProofs!Blocks, Host!Requests, HostProofs!Requests,
        Host!AllOn, HostProofs!AllOn, Host!RCA, HostProofs!RCA, Host!Takes,
        HostProofs!Takes, Host!Behind, HostProofs!Behind, Host!Taken,
        HostProofs!Taken, Host!Sector, HostProofs!Sector, Host!CommandComplete,
        HostProofs!CommandComplete, Host!BufferReadReady,
        HostProofs!BufferReadReady, Host!BufferWriteReady,
        HostProofs!BufferWriteReady, Host!TransferComplete,
        HostProofs!TransferComplete, Host!ClockStable, HostProofs!ClockStable,
        Host!Controller, HostProofs!Controller, Host!Issue, HostProofs!Issue,
        Host!PortRead, HostProofs!PortRead, Host!PortWrite, HostProofs!PortWrite,
        Host!Address, HostProofs!Address, Host!Done, HostProofs!Done, Host!Call,
        HostProofs!Call, Host!StartRead, HostProofs!StartRead, Host!StartPreload,
        HostProofs!StartPreload, Host!WaitRead, HostProofs!WaitRead, Host!Index,
        HostProofs!Index, Host!ReadWord, HostProofs!ReadWord, Host!EndRead,
        HostProofs!EndRead, Host!EndPreload, HostProofs!EndPreload, Host!StartWrite,
        HostProofs!StartWrite, Host!WaitWrite, HostProofs!WaitWrite, Host!WriteWord,
        HostProofs!WriteWord, Host!EndWrite, HostProofs!EndWrite, Host!InitCommands,
        HostProofs!InitCommands, Host!Reinit, HostProofs!Reinit, Host!SwitchOn,
        HostProofs!SwitchOn, Host!StartCommand, HostProofs!StartCommand,
        Host!EndCommand, HostProofs!EndCommand, Host!Driver, HostProofs!Driver,
        Host!CardSectors, HostProofs!CardSectors, Host!driver, HostProofs!driver,
        Host!host, HostProofs!host, Host!sdcard, HostProofs!sdcard
    <2>2. UNCHANGED hc => UNCHANGED HostProofs!vars
      BY DEF hc, HostProofs!vars, HostProofs!driver, HostProofs!host, HostProofs!sdcard
    <2> QED
      BY <2>1, <2>2 DEF StorageNext, Find, Dispatch, OnVirtio, OnCard, OnHost, all
  <1> QED
    BY <1>1, <1>2, PTL DEF StorageSpec, HostProofs!Spec

-----------------------------------------------------------------------------
\* The variables of all three drivers and their devices keep their types,
\* whatever board the kernel is on.
THEOREM StorageTypeCorrect == StorageSpec => []StorageTypeOK
  <1>1. Spec => []TypeOK
    BY TypeCorrect
  <1>2. Card!Spec => []Card!TypeOK
    BY CardTypeCorrect
  <1>3. HostProofs!Spec => []HostProofs!TypeOK
    BY SdAssumption, PreloadAssumption, HostProofs!HostTypeCorrect
  <1>4. HostProofs!TypeOK => Host!TypeOK
    BY Zenon DEF Host!TypeOK, HostProofs!TypeOK, Host!Requests, HostProofs!Requests, Host!Blocks,
       HostProofs!Blocks, Host!CardSectors, HostProofs!CardSectors, Host!AllOn, HostProofs!AllOn,
       Host!RCA, HostProofs!RCA, Host!Takes, HostProofs!Takes, Host!InitCommands,
       HostProofs!InitCommands
  <1> QED
    BY <1>1, <1>2, <1>3, <1>4, StorageRunsVirtio, StorageRunsCard, StorageRunsHost, PTL
       DEF StorageTypeOK

\* No device and its driver ever touch the same memory at once or take a
\* byte for another than it is: the choice between the drivers is made once.
THEOREM DevicesInStep == StorageSpec => [](OneOwner /\ InStep /\ InTurn)
  <1>1. Spec => []OneOwner
    BY OneOwnerAlways
  <1>2. Card!Spec => []InStep
    BY StaysInStep DEF InStep
  <1>3. HostProofs!Spec => []HostProofs!InTurn
    BY SdAssumption, PreloadAssumption, HostProofs!StaysInTurn
  <1>4. HostProofs!InTurn => InTurn
    BY DEF InTurn, Host!InTurn, HostProofs!InTurn, Host!AllOn, HostProofs!AllOn
  <1> QED
    BY <1>1, <1>2, <1>3, <1>4, StorageRunsVirtio, StorageRunsCard, StorageRunsHost, PTL

\* Through each of disk_read_fn's targets a call moves one sector, all of it
\* and no other, or fails.
THEOREM StorageIsADisk ==
    StorageSpec => ImplementsDisk /\ CardImplementsDisk /\ HostImplementsDisk
  <1>1. Spec => ImplementsDisk
    BY VirtioAssumption, DriverImplementsDisk
  <1>2. Card!Spec => CardImplementsDisk
    BY CardDriverImplementsDisk DEF CardImplementsDisk
  <1>3. HostProofs!Spec => HostProofs!HostImplementsDisk
    BY SdAssumption, PreloadAssumption, HostProofs!HostIsADisk
  <1>4. HostProofs!HostImplementsDisk => HostImplementsDisk
    BY PTL DEF HostImplementsDisk, Host!HostImplementsDisk, HostProofs!HostImplementsDisk,
      Host!Promise!Spec, HostProofs!Promise!Spec, Host!Promise!Init,
      HostProofs!Promise!Init, Host!Promise!Next, HostProofs!Promise!Next,
      Host!Promise!Call, HostProofs!Promise!Call, Host!Promise!Move,
      HostProofs!Promise!Move, Host!Promise!Fail, HostProofs!Promise!Fail,
      Host!Promise!Return, HostProofs!Promise!Return, Host!Promise!Requests,
      HostProofs!Promise!Requests, Host!Calling, HostProofs!Calling, Host!Moved,
      HostProofs!Moved, Host!Blocks, HostProofs!Blocks, Host!CardSectors,
      HostProofs!CardSectors
  <1> QED
    BY <1>1, <1>2, <1>3, <1>4, StorageRunsVirtio, StorageRunsCard, StorageRunsHost, PTL

\* Standard input goes on from what the preload has read, whatever else the
\* kernel does.
THEOREM PreloadGoesOn == StorageSpec => PreloadsTheDisk
  <1>1. HostProofs!Spec => HostProofs!PreloadsTheDisk
    BY SdAssumption, PreloadAssumption, HostProofs!PreloadIsTheDisk
  <1>2. HostProofs!PreloadsTheDisk => PreloadsTheDisk
    BY PTL DEF PreloadsTheDisk, Host!PreloadsTheDisk, HostProofs!PreloadsTheDisk, Host!vars,
      Host!driver, HostProofs!driver, Host!host, HostProofs!host, Host!sdcard,
      HostProofs!sdcard, HostProofs!vars
  <1> QED
    BY <1>1, <1>2, StorageRunsHost, PTL

-----------------------------------------------------------------------------
(* Induction *)

\* What holds of 0, and of n + 1 whenever of n, holds of every number.
LEMMA Upwards ==
    ASSUME NEW S, 0 \in S, \A n \in Nat : n \in S => n + 1 \in S
    PROVE  \A n \in Nat : n \in S
  <1> DEFINE Smaller == OpToRel(<, Nat)
             T == Nat \ S
  <1>1. IsWellFoundedOn(Smaller, Nat)
    BY NatLessThanWellFounded
  <1> SUFFICES ASSUME T # {} PROVE FALSE
    OBVIOUS
  <1>0. \A x, y \in Nat : x < y => <<x, y>> \in Smaller
    BY DEF OpToRel
  <1> HIDE DEF Smaller
  <1>2. PICK x \in T : \A y \in T : ~(<<y, x>> \in Smaller)
    <2>1. T \subseteq Nat
      OBVIOUS
    <2> HIDE DEF T
    <2> QED
      BY <1>1, <2>1, WFMin
  <1>3. x \in Nat /\ x # 0 /\ x \notin S
    OBVIOUS
  <1>4. x - 1 \in Nat /\ <<x - 1, x>> \in Smaller
    BY <1>0, <1>3
  <1>5. x - 1 \in S
    BY <1>2, <1>4
  <1> QED
    BY <1>3, <1>4, <1>5

\* A step for each number up to n, from a value each to the next: there is a
\* function that takes them.
Stepwise(f, n, s, G) == f = [i \in 0 .. n |-> IF i = 0 THEN s ELSE G[<<f[i - 1], i>>]]

LEMMA StepsExist ==
    ASSUME NEW S, NEW s \in S, NEW m \in Nat, NEW G \in [S \X (1 .. m) -> S]
    PROVE  \E f \in [0 .. m -> S] : Stepwise(f, m, s, G)
  <1> DEFINE Good == {n \in Nat : n <= m => \E f \in [0 .. n -> S] : Stepwise(f, n, s, G)}
  <1>1. 0 \in Good
    <2> DEFINE f == [i \in 0 .. 0 |-> s]
    <2>1. f \in [0 .. 0 -> S] /\ Stepwise(f, 0, s, G)
      BY DEF Stepwise
    <2> QED
      BY <2>1
  <1>2. ASSUME NEW n \in Nat, n \in Good PROVE n + 1 \in Good
    <2> SUFFICES ASSUME n + 1 <= m PROVE \E f \in [0 .. n + 1 -> S] : Stepwise(f, n + 1, s, G)
      OBVIOUS
    <2>1. PICK f \in [0 .. n -> S] : Stepwise(f, n, s, G)
      BY <1>2
    <2> DEFINE v == G[<<f[n], n + 1>>]
               g == [i \in 0 .. n + 1 |-> IF i = n + 1 THEN v ELSE f[i]]
    <2>2. v \in S
      <3>1. f[n] \in S /\ n + 1 \in 1 .. m
        OBVIOUS
      <3> QED
        BY <3>1
    <2>3. g \in [0 .. n + 1 -> S]
      BY <2>2
    <2>4. ASSUME NEW i \in 0 .. n + 1 PROVE g[i] = IF i = 0 THEN s ELSE G[<<g[i - 1], i>>]
      <3>1. CASE i = n + 1
        <4>1. g[n + 1] = v /\ n + 1 # 0 /\ i - 1 = n /\ n # n + 1
          BY <3>1
        <4>2. g[n] = f[n]
          OBVIOUS
        <4> QED
          BY <3>1, <4>1, <4>2
      <3>2. CASE i \in 0 .. n
        <4>1. g[i] = f[i] /\ (i # 0 => i - 1 \in 0 .. n /\ g[i - 1] = f[i - 1])
          BY <3>2
        <4>2. f[i] = IF i = 0 THEN s ELSE G[<<f[i - 1], i>>]
          BY <2>1, <3>2 DEF Stepwise
        <4> QED
          BY <4>1, <4>2
      <3> QED
        BY <3>1, <3>2
    <2> HIDE DEF g
    <2>5. Stepwise(g, n + 1, s, G)
      <3>1. g = [i \in 0 .. n + 1 |-> g[i]]
        BY <2>3
      <3> QED
        BY <2>4, <3>1 DEF Stepwise
    <2> QED
      BY <2>3, <2>5
  <1> HIDE DEF Good
  <1>3. m \in Good
    BY <1>1, <1>2, Upwards
  <1> QED
    BY <1>3 DEF Good

\* FlattenSeq puts one sequence behind what it has of those before.
InSteps(seqs, T) ==
    \E f \in [0 .. Len(seqs) -> Seq(T)] :
      /\ f[0] = <<>> /\ f[Len(seqs)] = Tree!FlattenSeq(seqs)
      /\ \A i \in 1 .. Len(seqs) : f[i] = f[i - 1] \o seqs[i]

LEMMA FlattenSteps ==
    ASSUME NEW T, NEW seqs \in Seq(Seq(T))
    PROVE  InSteps(seqs, T)
  <1> DEFINE n == Len(seqs)
             S == Seq(T)
             G == [x \in S \X (1 .. n) |-> x[1] \o seqs[x[2]]]
  <1>1. n \in Nat /\ \A i \in 1 .. n : seqs[i] \in S
    OBVIOUS
  <1>2. <<>> \in S
    OBVIOUS
  <1>3. G \in [S \X (1 .. n) -> S]
    <2>1. ASSUME NEW x \in S \X (1 .. n) PROVE x[1] \o seqs[x[2]] \in S
      <3>1. x[1] \in S /\ seqs[x[2]] \in S
        BY <1>1
      <3> QED
        BY <3>1
    <2> HIDE DEF S
    <2> QED
      BY <2>1
  <1>4. \A y \in S, i \in 1 .. n : G[<<y, i>>] = y \o seqs[i]
    <2> HIDE DEF S
    <2> QED
      OBVIOUS
  <1> HIDE DEF G, S
  <1>5. PICK f \in [0 .. n -> S] : Stepwise(f, n, <<>>, G)
    BY <1>1, <1>2, <1>3, StepsExist
  <1>6. f[0] = <<>> /\ \A i \in 1 .. n : f[i] = G[<<f[i - 1], i>>]
    <2> HIDE DEF n
    <2>1. \A i \in 0 .. n : f[i] = IF i = 0 THEN <<>> ELSE G[<<f[i - 1], i>>]
      BY <1>5 DEF Stepwise
    <2>2. n \in Nat /\ 0 \in 0 .. n /\ \A i \in 1 .. n : i \in 0 .. n /\ i # 0
      BY <1>1
    <2> QED
      BY <2>1, <2>2, Zenon
  <1>7. \A i \in 1 .. n : f[i - 1] \in S /\ f[i] = f[i - 1] \o seqs[i]
    <2> SUFFICES ASSUME NEW i \in 1 .. n PROVE f[i - 1] \in S /\ f[i] = f[i - 1] \o seqs[i]
      OBVIOUS
    <2>1. i - 1 \in 0 .. n
      BY <1>1
    <2>2. f[i - 1] \in S
      BY <2>1
    <2> QED
      BY <1>4, <1>6, <2>2
  <1>9. n # 0 => 1 \in 1 .. n /\ f[1] = <<>> \o seqs[1] /\ seqs[1] \in Seq(T)
    <2> SUFFICES ASSUME n # 0 PROVE 1 \in 1 .. n /\ f[1] = <<>> \o seqs[1] /\ seqs[1] \in Seq(T)
      OBVIOUS
    <2>1. 1 \in 1 .. n /\ 1 - 1 = 0
      BY <1>1
    <2>2. f[1] = f[1 - 1] \o seqs[1]
      BY <1>7, <2>1, Zenon
    <2> QED
      BY <1>1, <1>6, <2>1, <2>2 DEF S
  <1>8. f[n] = Tree!FlattenSeq(seqs)
    <2>1. CASE n = 0
      <3>1. seqs = <<>>
        BY <2>1
      <3> QED
        BY <1>6, <2>1, <3>1 DEF Tree!FlattenSeq
    <2>2. CASE n # 0
      <3> DEFINE Step(g, i) == IF i = 1 THEN seqs[i] ELSE g[i - 1] \o seqs[i]
                 Rule(g) == g = [i \in 1 .. n |-> Step(g, i)]
                 it == CHOOSE g : Rule(g)
                 h  == [i \in 1 .. n |-> f[i]]
      <3>1. Tree!FlattenSeq(seqs) = it[n]
        BY <2>2 DEF Tree!FlattenSeq
      <3>2. Rule(h)
        <4>1. ASSUME NEW i \in 1 .. n PROVE f[i] = Step(h, i)
          <5>1. CASE i = 1
            <6>1. f[1] = <<>> \o seqs[1] /\ seqs[1] \in Seq(T)
              BY <1>9, <5>1
            <6> QED
              BY <5>1, <6>1
          <5>2. CASE i # 1
            <6>1. i - 1 \in 1 .. n
              BY <1>1, <5>2
            <6>2. h[i - 1] = f[i - 1]
              BY <6>1
            <6> QED
              BY <1>7, <5>2, <6>2
          <5> QED
            BY <5>1, <5>2
        <4> HIDE DEF Step
        <4> QED
          BY <4>1
      <3>3. Rule(it)
        <4> HIDE DEF Rule, h
        <4> QED
          BY <3>2
      <3>4. \A i \in 1 .. n : it[i] = Step(it, i)
        <4> HIDE DEF it, Step
        <4> QED
          BY <3>3
      <3> HIDE DEF it, h, Rule
      <3> DEFINE Good == {k \in Nat : k \in 1 .. n => it[k] = f[k]}
      <3>5. 0 \in Good
        OBVIOUS
      <3>6. ASSUME NEW k \in Nat, k \in Good PROVE k + 1 \in Good
        <4> SUFFICES ASSUME k + 1 \in 1 .. n PROVE it[k + 1] = f[k + 1]
          OBVIOUS
        <4>1. CASE k = 0
          <5>1. it[1] = seqs[1] /\ f[1] = <<>> \o seqs[1] /\ seqs[1] \in Seq(T)
            BY <1>9, <3>4, <4>1
          <5> QED
            BY <4>1, <5>1
        <4>2. CASE k # 0
          <5>1. k \in 1 .. n /\ k + 1 # 1 /\ (k + 1) - 1 = k
            BY <1>1, <4>2
          <5>2. it[k] = f[k]
            BY <3>6, <5>1
          <5>3. it[k + 1] = it[k] \o seqs[k + 1] /\ f[k + 1] = f[k] \o seqs[k + 1]
            BY <1>7, <3>4, <5>1
          <5> QED
            BY <5>2, <5>3
        <4> QED
          BY <4>1, <4>2
      <3> HIDE DEF Good
      <3>7. n \in Good
        BY <1>1, <3>5, <3>6, Upwards
      <3>8. n \in 1 .. n
        BY <1>1, <2>2
      <3> QED
        BY <3>1, <3>7, <3>8 DEF Good
    <2> QED
      BY <2>1, <2>2
  <1> QED
    BY <1>6, <1>7, <1>8 DEF S, InSteps

-----------------------------------------------------------------------------
(* The walk over the device tree *)

\* What the walk keeps, and the tokens of boards.
TreeRegs == DOMAIN MmioDevice \cup {0}
Walkers == [type : {"none", "virtio", "spi"}, reg : TreeRegs, spi : TreeRegs, mmc : BOOLEAN, disk : TreeRegs]
TreeTokens ==
    {Tree!Begin(name) : name \in Tree!Names} \cup {Tree!Reg(a) : a \in TreeRegs} \cup {Tree!Other, Tree!End}

\* The tokens s lead the walk from w to u.
Leads(w, s, u) ==
    \E f \in [0 .. Len(s) -> Walkers] :
      f[0] = w /\ f[Len(s)] = u /\ \A i \in 1 .. Len(s) : f[i] = Tree!Walk(f[i - 1], s[i])

LEMMA TokenKinds ==
    /\ \A name \in Tree!Names : Tree!Begin(name) \in TreeTokens
    /\ \A a \in TreeRegs : Tree!Reg(a) \in TreeTokens
    /\ Tree!Other \in TreeTokens /\ Tree!End \in TreeTokens
    /\ 0 \in TreeRegs
  BY DEF TreeTokens, TreeRegs

LEMMA LeadsNothing ==
    ASSUME NEW w \in Walkers
    PROVE  Leads(w, <<>>, w)
  <1> DEFINE f == [i \in 0 .. 0 |-> w]
  <1>1. Len(<<>>) = 0
    OBVIOUS
  <1>2. f \in [0 .. 0 -> Walkers] /\ f[0] = w
    OBVIOUS
  <1>3. \A i \in 1 .. 0 : f[i] = Tree!Walk(f[i - 1], <<>>[i])
    OBVIOUS
  <1> HIDE DEF f
  <1> QED
    BY <1>1, <1>2, <1>3 DEF Leads

LEMMA LeadsOne ==
    ASSUME NEW w \in Walkers, NEW t, Tree!Walk(w, t) \in Walkers
    PROVE  Leads(w, <<t>>, Tree!Walk(w, t))
  <1> DEFINE u == Tree!Walk(w, t)
             f == [i \in 0 .. 1 |-> IF i = 0 THEN w ELSE u]
  <1>1. Len(<<t>>) = 1 /\ <<t>>[1] = t
    OBVIOUS
  <1> HIDE DEF u
  <1>2. f \in [0 .. 1 -> Walkers] /\ f[0] = w /\ f[1] = u
    BY DEF u
  <1>3. \A i \in 1 .. 1 : f[i] = Tree!Walk(f[i - 1], <<t>>[i])
    <2> SUFFICES f[1] = Tree!Walk(f[1 - 1], <<t>>[1])
      OBVIOUS
    <2>1. 1 - 1 = 0
      OBVIOUS
    <2> HIDE DEF f
    <2> QED
      BY <1>1, <1>2, <2>1, Zenon DEF u
  <1> HIDE DEF f
  <1> QED
    BY <1>1, <1>2, <1>3 DEF Leads, u

LEMMA LeadsOn ==
    ASSUME NEW w, NEW u, NEW v, NEW s \in Seq(TreeTokens), NEW t \in Seq(TreeTokens),
           Leads(w, s, u), Leads(u, t, v)
    PROVE  Leads(w, s \o t, v)
  <1> DEFINE m == Len(s)
             n == Len(t)
             x == s \o t
  <1>1. m \in Nat /\ n \in Nat /\ Len(x) = m + n
    OBVIOUS
  <1>2. /\ \A i \in 1 .. m : x[i] = s[i]
        /\ \A i \in 1 .. n : x[m + i] = t[i]
    OBVIOUS
  <1>3. PICK f \in [0 .. m -> Walkers] :
          f[0] = w /\ f[m] = u /\ \A i \in 1 .. m : f[i] = Tree!Walk(f[i - 1], s[i])
    BY DEF Leads
  <1>4. PICK g \in [0 .. n -> Walkers] :
          g[0] = u /\ g[n] = v /\ \A i \in 1 .. n : g[i] = Tree!Walk(g[i - 1], t[i])
    BY DEF Leads
  <1> HIDE DEF m, n, x
  <1> DEFINE h == [i \in 0 .. m + n |-> IF i <= m THEN f[i] ELSE g[i - m]]
  <1>5. h \in [0 .. m + n -> Walkers]
    <2> SUFFICES ASSUME NEW i \in 0 .. m + n PROVE (IF i <= m THEN f[i] ELSE g[i - m]) \in Walkers
      OBVIOUS
    <2>1. (i <= m => i \in 0 .. m) /\ (~(i <= m) => i - m \in 0 .. n)
      BY <1>1
    <2> QED
      BY <2>1
  <1>6. h[0] = w
    BY <1>1, <1>3
  <1>7. \A i \in 0 .. n : m + i \in 0 .. m + n /\ h[m + i] = g[i]
    <2> SUFFICES ASSUME NEW i \in 0 .. n PROVE m + i \in 0 .. m + n /\ h[m + i] = g[i]
      OBVIOUS
    <2>1. m + i \in 0 .. m + n /\ (m + i) - m = i /\ (m + i <= m <=> i = 0) /\ m + 0 = m
      BY <1>1
    <2>2. CASE i = 0
      <3>1. h[m] = f[m]
        BY <1>1, <2>1, <2>2
      <3> QED
        BY <1>3, <1>4, <2>1, <2>2, <3>1
    <2>3. CASE i # 0
      BY <2>1, <2>3
    <2> QED
      BY <2>2, <2>3
  <1>8. \A i \in 0 .. m : h[i] = f[i]
    BY <1>1
  <1> HIDE DEF h
  <1>9. ASSUME NEW i \in 1 .. m + n PROVE h[i] = Tree!Walk(h[i - 1], x[i])
    <2>1. CASE i <= m
      <3>1. i \in 1 .. m /\ i \in 0 .. m /\ i - 1 \in 0 .. m
        BY <1>1, <2>1
      <3> QED
        BY <1>2, <1>3, <1>8, <3>1, Zenon
    <2>2. CASE ~(i <= m)
      <3> DEFINE k == i - m
      <3>1. k \in 1 .. n /\ k \in 0 .. n /\ k - 1 \in 0 .. n /\ i = m + k /\ i - 1 = m + (k - 1)
        BY <1>1, <2>2
      <3> HIDE DEF k
      <3>2. h[i] = g[k] /\ h[i - 1] = g[k - 1] /\ x[i] = t[k]
        BY <1>2, <1>7, <3>1, Zenon
      <3> QED
        BY <1>4, <3>1, <3>2, Zenon
    <2> QED
      BY <2>1, <2>2
  <1>10. h[m + n] = v
    <2>1. n \in 0 .. n
      BY <1>1
    <2> QED
      BY <1>4, <1>7, <2>1, Zenon
  <1> QED
    BY <1>1, <1>5, <1>6, <1>9, <1>10 DEF Leads, x

\* When a disk was found, the rest is not looked at.
LEMMA DiskStays ==
    ASSUME NEW w \in Walkers, w.disk # 0, NEW s \in Seq(TreeTokens)
    PROVE  Leads(w, s, w)
  <1> DEFINE n == Len(s)
             f == [i \in 0 .. n |-> w]
  <1>1. n \in Nat
    OBVIOUS
  <1> HIDE DEF n
  <1>2. f \in [0 .. n -> Walkers] /\ f[0] = w /\ f[n] = w
    BY <1>1
  <1>3. ASSUME NEW i \in 1 .. n PROVE f[i] = Tree!Walk(f[i - 1], s[i])
    <2>1. i \in 0 .. n /\ i - 1 \in 0 .. n
      BY <1>1
    <2> QED
      BY <2>1 DEF Tree!Walk
  <1> HIDE DEF f
  <1> QED
    BY <1>2, <1>3 DEF Leads, n

\* A walk comes to one end.
LEMMA WalkEnds ==
    ASSUME NEW s \in Seq(TreeTokens), NEW u, Leads(Tree!Start, s, u)
    PROVE  Tree!fdt_find_storage(s) =
             IF u.disk # 0 THEN [kind |-> "virtio", base |-> u.disk]
             ELSE IF u.mmc /\ u.spi # 0 THEN [kind |-> "spi_sd", base |-> u.spi]
             ELSE Tree!NotFound
  <1> DEFINE n == Len(s)
             Then(g, i) == IF i = 0 THEN Tree!Start ELSE Tree!Walk(g[i - 1], s[i])
             Rule(g) == g = [i \in 0 .. n |-> Then(g, i)]
             it == CHOOSE g : Rule(g)
  <1>1. n \in Nat
    OBVIOUS
  <1>2. PICK f \in [0 .. n -> Walkers] :
          f[0] = Tree!Start /\ f[n] = u /\ \A i \in 1 .. n : f[i] = Tree!Walk(f[i - 1], s[i])
    BY DEF Leads
  <1>3. Rule(f)
    <2>1. ASSUME NEW i \in 0 .. n PROVE f[i] = Then(f, i)
      <3> HIDE DEF n
      <3>1. i = 0 \/ i \in 1 .. n
        BY <1>1
      <3> QED
        BY <1>2, <3>1, Zenon
    <2> HIDE DEF Then, n
    <2> QED
      BY <2>1
  <1>4. Rule(it)
    <2> HIDE DEF Rule
    <2> QED
      BY <1>3
  <1>5. \A i \in 0 .. n : it[i] = Then(it, i)
    <2> HIDE DEF it, Then
    <2> QED
      BY <1>4
  <1>6. Tree!fdt_find_storage(s) =
          IF it[n].disk # 0 THEN [kind |-> "virtio", base |-> it[n].disk]
          ELSE IF it[n].mmc /\ it[n].spi # 0 THEN [kind |-> "spi_sd", base |-> it[n].spi]
          ELSE Tree!NotFound
    BY DEF Tree!fdt_find_storage
  <1> HIDE DEF it, Rule, n
  <1> DEFINE Good == {k \in Nat : k <= n => it[k] = f[k]}
  <1>7. 0 \in Good
    <2>1. 0 \in 0 .. n
      BY <1>1
    <2>2. it[0] = Then(it, 0)
      BY <1>5, <2>1, Zenon
    <2> QED
      BY <1>2, <2>2
  <1>8. ASSUME NEW k \in Nat, k \in Good PROVE k + 1 \in Good
    <2> SUFFICES ASSUME k + 1 <= n PROVE it[k + 1] = f[k + 1]
      OBVIOUS
    <2>1. k + 1 \in 0 .. n /\ k + 1 \in 1 .. n /\ k <= n /\ k + 1 # 0 /\ (k + 1) - 1 = k
      BY <1>1
    <2>2. it[k] = f[k]
      BY <1>8, <2>1
    <2>3. it[k + 1] = Then(it, k + 1)
      BY <1>5, <2>1, Zenon
    <2>4. it[k + 1] = Tree!Walk(it[k], s[k + 1])
      BY <2>1, <2>3
    <2>5. f[k + 1] = Tree!Walk(f[k], s[k + 1])
      <3>1. f[k + 1] = Tree!Walk(f[(k + 1) - 1], s[k + 1])
        BY <1>2, <2>1, Zenon
      <3> QED
        BY <2>1, <3>1
    <2> QED
      BY <2>2, <2>4, <2>5
  <1> HIDE DEF Good, Then
  <1>9. n \in Good
    BY <1>1, <1>7, <1>8, Upwards
  <1>10. it[n] = u
    BY <1>1, <1>2, <1>9 DEF Good
  <1> QED
    BY <1>6, <1>10, Zenon

\* SetToSeq lists the members of a set.
LEMMA ListsSet ==
    ASSUME NEW S, IsFiniteSet(S)
    PROVE  /\ Tree!SetToSeq(S) \in Seq(S)
           /\ \A x \in S : \E i \in 1 .. Len(Tree!SetToSeq(S)) : Tree!SetToSeq(S)[i] = x
  <1> DEFINE n == Cardinality(S)
             q == CHOOSE f \in [1 .. n -> S] : IsInjective(f)
  <1>1. Tree!Cardinality(S) = n
    BY DEF Tree!Cardinality, Cardinality
  <1>2. Tree!SetToSeq(S) = q
    BY <1>1 DEF Tree!SetToSeq, Tree!IsInjective, IsInjective
  <1>3. n \in Nat /\ ExistsBijection(1 .. n, S)
    BY FS_CardinalityType
  <1> HIDE DEF n
  <1>4. PICK b : b \in Bijection(1 .. n, S)
    BY <1>3 DEF ExistsBijection
  <1>5. b \in [1 .. n -> S] /\ IsInjective(b)
    BY <1>4 DEF Bijection, Injection, IsInjective
  <1>6. q \in [1 .. n -> S] /\ IsInjective(q)
    BY <1>5
  <1> HIDE DEF q
  <1>7. q \in Injection(1 .. n, S)
    BY <1>6 DEF Injection, IsInjective
  <1>8. IsFiniteSet(1 .. n) /\ Cardinality(1 .. n) = n
    BY <1>3, FS_Interval
  <1>9. q \in Surjection(1 .. n, S)
    BY <1>7, <1>8, FS_Injection DEF n
  <1>10. \A x \in S : \E i \in 1 .. n : q[i] = x
    BY <1>9 DEF Surjection
  <1>11. q \in Seq(S) /\ Len(q) = n
    BY <1>3, <1>6
  <1> QED
    BY <1>2, <1>10, <1>11

\* Nodes the walk understands: below them are cards and what is of no interest.
Plain(node) ==
    /\ node \in Tree!Nodes /\ node.children \subseteq {"mmc", "other"}
    /\ node.name = "virtio" => node.children = {}

\* A node that has ended is not looked at again at the end of the next one.
Settled(w) ==
    /\ w.type = "spi" /\ w.reg # 0 => w.spi = w.reg
    /\ w.type = "virtio" /\ w.reg # 0 => MmioDevice[w.reg] # "block"

HoldsDisk(node) == node.name = "virtio" /\ node.reg # 0 /\ MmioDevice[node.reg] = "block"
HoldsBus(node) == node.name = "spi" /\ node.reg # 0
HoldsCard(node) == HoldsBus(node) /\ "mmc" \in node.children

\* What the walk has at the end of a node, if it had w before.
AtItsEnd(w, node, u) ==
    IF HoldsDisk(node) THEN u.disk = node.reg
    ELSE /\ u.disk = 0 /\ Settled(u)
         /\ u.spi = IF HoldsBus(node) THEN node.reg ELSE w.spi
         /\ u.mmc <=> \/ w.mmc
                      \/ node.name = "mmc" /\ w.spi # 0
                      \/ "mmc" \in node.children /\ u.spi # 0

\* The walk below a node.
Below(w, some) == [w EXCEPT !.type = "none", !.reg = 0, !.mmc = @ \/ (some /\ w.spi # 0)]

LEMMA ChildWalked ==
    ASSUME NEW w \in Walkers, w.disk = 0, NEW name \in {"mmc", "other"}
    PROVE  Tree!Child(name) \in Seq(TreeTokens) /\ Leads(w, Tree!Child(name), Below(w, name = "mmc"))
  <1> DEFINE u == Below(w, name = "mmc")
             s == Tree!Child(name)
             f == [i \in 0 .. 4 |-> IF i = 0 THEN w ELSE u]
  <1>1. s = <<Tree!Begin(name), Tree!Reg(0), Tree!Other, Tree!End>>
    BY DEF Tree!Child
  <1>2. s \in Seq(TreeTokens) /\ Len(s) = 4
    BY <1>1, TokenKinds DEF Tree!Names
  <1>3. s[1] = Tree!Begin(name) /\ s[2] = Tree!Reg(0) /\ s[3] = Tree!Other /\ s[4] = Tree!End
    BY <1>1
  <1>4. u \in Walkers /\ u.disk = 0 /\ u.type = "none"
    BY TokenKinds DEF Below, Walkers
  <1>5. Tree!Walk(w, Tree!Begin(name)) = u
    BY DEF Tree!Walk, Tree!BeginNode, Tree!Begin, Below, Walkers
  <1>6. Tree!Walk(u, Tree!Reg(0)) = u
    BY <1>4 DEF Tree!Walk, Tree!RegProperty, Tree!Reg
  <1>7. Tree!Walk(u, Tree!Other) = u
    BY <1>4 DEF Tree!Walk, Tree!Other
  <1>8. Tree!Walk(u, Tree!End) = u
    BY <1>4 DEF Tree!Walk, Tree!EndNode, Tree!End
  <1> HIDE DEF u, s
  <1>9. f \in [0 .. 4 -> Walkers] /\ f[0] = w /\ f[1] = u /\ f[2] = u /\ f[3] = u /\ f[4] = u
    BY <1>4
  <1> HIDE DEF f
  <1>10. \A i \in 1 .. 4 : f[i] = Tree!Walk(f[i - 1], s[i])
    <2>1. f[1] = Tree!Walk(f[0], s[1]) /\ f[2] = Tree!Walk(f[1], s[2])
      BY <1>3, <1>5, <1>6, <1>9, Zenon
    <2>2. f[3] = Tree!Walk(f[2], s[3]) /\ f[4] = Tree!Walk(f[3], s[4])
      BY <1>3, <1>7, <1>8, <1>9, Zenon
    <2>3. ASSUME NEW i \in 1 .. 4 PROVE f[i] = Tree!Walk(f[i - 1], s[i])
      <3>1. i \in {1, 2, 3, 4} /\ 1 - 1 = 0 /\ 2 - 1 = 1 /\ 3 - 1 = 2 /\ 4 - 1 = 3
        OBVIOUS
      <3> QED
        BY <2>1, <2>2, <3>1
    <2> QED
      BY <2>3
  <1> QED
    BY <1>2, <1>9, <1>10 DEF Leads, u, s

\* The tokens of the children of a node, whatever order they come in.
Kids(node) ==
    Tree!FlattenSeq([i \in 1 .. Len(Tree!SetToSeq(node.children)) |->
                       Tree!Child(Tree!SetToSeq(node.children)[i])])

LEMMA KidsWalked ==
    ASSUME NEW w \in Walkers, w.disk = 0, NEW node, Plain(node)
    PROVE  /\ Kids(node) \in Seq(TreeTokens)
           /\ Leads(w, Kids(node), IF node.children = {} THEN w ELSE Below(w, "mmc" \in node.children))
  <1> DEFINE c == node.children
             q == Tree!SetToSeq(c)
             n == Len(q)
             seqs == [i \in 1 .. n |-> Tree!Child(q[i])]
             Upto(m) == \E i \in 1 .. m : q[i] = "mmc"
             h(m) == IF m = 0 THEN w ELSE Below(w, Upto(m))
  <1>1. c \subseteq {"mmc", "other"}
    BY DEF Plain
  <1>2. IsFiniteSet(c)
    <2>1. IsFiniteSet({"mmc", "other"})
      <3>1. {"mmc", "other"} = {"mmc"} \cup {"other"}
        OBVIOUS
      <3>2. IsFiniteSet({"mmc"})
        BY FS_Singleton
      <3>3. IsFiniteSet({"mmc"} \cup {"other"})
        BY <3>2, FS_AddElement
      <3> QED
        BY <3>1, <3>3
    <2> QED
      BY <1>1, <2>1, FS_Subset
  <1>3. q \in Seq(c) /\ \A x \in c : \E i \in 1 .. n : q[i] = x
    BY <1>2, ListsSet
  <1>4. n \in Nat /\ \A i \in 1 .. n : q[i] \in c /\ q[i] \in {"mmc", "other"}
    BY <1>1, <1>3
  <1>5. Kids(node) = Tree!FlattenSeq(seqs)
    BY DEF Kids
  <1> HIDE DEF c, q, n
  <1>6. \A i \in 1 .. n : Tree!Child(q[i]) \in Seq(TreeTokens)
    BY <1>4, ChildWalked
  <1>7. seqs \in Seq(Seq(TreeTokens)) /\ Len(seqs) = n /\ \A i \in 1 .. n : seqs[i] = Tree!Child(q[i])
    BY <1>4, <1>6
  <1> HIDE DEF seqs
  <1>8. PICK f \in [0 .. n -> Seq(TreeTokens)] :
          f[0] = <<>> /\ f[n] = Tree!FlattenSeq(seqs) /\ \A i \in 1 .. n : f[i] = f[i - 1] \o seqs[i]
    <2>1. InSteps(seqs, TreeTokens)
      <3>1. seqs \in Seq(Seq(TreeTokens))
        BY <1>7
      <3> QED
        BY <3>1, FlattenSteps
    <2> QED
      BY <1>7, <2>1, Zenon DEF InSteps
  <1> DEFINE Good == {m \in Nat : m <= n => Leads(w, f[m], h(m))}
  <1>9. 0 \in Good
    BY <1>8, LeadsNothing
  <1>10. ASSUME NEW m \in Nat, m \in Good PROVE m + 1 \in Good
    <2> SUFFICES ASSUME m + 1 <= n PROVE Leads(w, f[m + 1], h(m + 1))
      <3> HIDE DEF h
      <3> QED
        OBVIOUS
    <2>1. m \in 0 .. n /\ m + 1 \in 1 .. n /\ m <= n /\ (m + 1) - 1 = m /\ m + 1 # 0
      BY <1>4
    <2>2. f[m + 1] = f[m] \o Tree!Child(q[m + 1]) /\ f[m] \in Seq(TreeTokens)
      <3>1. f[m + 1] = f[(m + 1) - 1] \o seqs[m + 1]
        BY <1>8, <2>1, Zenon
      <3> QED
        BY <1>7, <1>8, <2>1, <3>1
    <2>3. h(m) \in Walkers /\ h(m).disk = 0
      <3> HIDE DEF Upto
      <3> QED
        BY TokenKinds DEF Below, Walkers
    <2>4. q[m + 1] \in {"mmc", "other"}
      BY <1>4, <2>1
    <2>5. Leads(h(m), Tree!Child(q[m + 1]), Below(h(m), q[m + 1] = "mmc")) /\ Tree!Child(q[m + 1]) \in Seq(TreeTokens)
      <3> HIDE DEF h
      <3> QED
        BY <2>3, <2>4, ChildWalked
    <2>6. Below(h(m), q[m + 1] = "mmc") = h(m + 1)
      <3>1. Upto(m + 1) <=> Upto(m) \/ q[m + 1] = "mmc"
        <4>1. 1 .. m + 1 = 1 .. m \cup {m + 1}
          OBVIOUS
        <4> QED
          BY <4>1
      <3>2. m = 0 => ~Upto(m)
        OBVIOUS
      <3> HIDE DEF Upto
      <3> QED
        BY <2>1, <3>1, <3>2 DEF Below, Walkers
    <2>7. Leads(w, f[m], h(m))
      BY <1>10, <2>1
    <2> HIDE DEF h
    <2> QED
      BY <2>2, <2>5, <2>6, <2>7, LeadsOn
  <1> HIDE DEF Good
  <1>11. n \in Good
    BY <1>4, <1>9, <1>10, Upwards
  <1>12. Leads(w, f[n], h(n))
    <2>1. n <= n
      BY <1>4
    <2> HIDE DEF h
    <2> QED
      BY <1>11, <2>1 DEF Good
  <1>13. (c = {} => n = 0) /\ (c # {} => n # 0) /\ (Upto(n) <=> "mmc" \in c)
    <2>1. c = {} => n = 0
      <3> SUFFICES ASSUME c = {}, n # 0 PROVE FALSE
        OBVIOUS
      <3>1. 1 \in 1 .. n
        BY <1>4
      <3> QED
        BY <1>4, <3>1
    <2>2. c # {} => n # 0
      BY <1>3
    <2>3. Upto(n) <=> "mmc" \in c
      BY <1>3, <1>4
    <2> QED
      BY <2>1, <2>2, <2>3
  <1>14. h(n) = IF c = {} THEN w ELSE Below(w, "mmc" \in c)
    <2> HIDE DEF Upto
    <2>1. CASE c = {}
      BY <1>13, <2>1
    <2>2. CASE c # {}
      <3>1. Below(w, Upto(n)) = Below(w, "mmc" \in c)
        BY <1>13 DEF Below, Walkers
      <3> QED
        BY <1>13, <2>2, <3>1
    <2> QED
      BY <2>1, <2>2
  <1>15. Kids(node) \in Seq(TreeTokens)
    <2>1. n \in 0 .. n
      BY <1>4
    <2> QED
      BY <1>5, <1>8, <2>1
  <1> HIDE DEF h
  <1> QED
    BY <1>5, <1>8, <1>12, <1>14, <1>15 DEF c

LEMMA TwoTokens ==
    ASSUME NEW T, NEW a \in T, NEW b \in T
    PROVE  <<a>> \o <<b>> = <<a, b>> /\ <<a, b>> \in Seq(T)
  <1>1. <<a>> \in Seq(T) /\ <<b>> \in Seq(T) /\ <<a, b>> \in Seq(T)
    OBVIOUS
  <1>2. Len(<<a>>) = 1 /\ Len(<<b>>) = 1 /\ <<a>>[1] = a /\ <<b>>[1] = b
    OBVIOUS
  <1> DEFINE x == <<a>> \o <<b>>
             y == <<a, b>>
  <1>3. x \in Seq(T) /\ Len(x) = 2 /\ x[1] = a
    BY <1>1, <1>2
  <1>4. x[2] = b
    <2>1. (<<a>> \o <<b>>)[1 + 1] = <<b>>[1]
      BY <1>1, <1>2, ConcatProperties
    <2> QED
      BY <1>2, <2>1
  <1>5. y \in Seq(T) /\ Len(y) = 2 /\ y[1] = a /\ y[2] = b
    OBVIOUS
  <1> HIDE DEF x, y
  <1>6. \A i \in 1 .. 2 : x[i] = y[i]
    BY <1>3, <1>4, <1>5
  <1>7. x = y
    BY <1>3, <1>5, <1>6, SeqEqual
  <1> QED
    BY <1>1, <1>7 DEF x, y

\* The walk over a node and what is below it.
LEMMA NodeWalked ==
    ASSUME NEW w \in Walkers, w.disk = 0, Settled(w), NEW node, Plain(node)
    PROVE  /\ Tree!NodeTokens(node) \in Seq(TreeTokens)
           /\ \E u \in Walkers : Leads(w, Tree!NodeTokens(node), u) /\ AtItsEnd(w, node, u)
  <1> DEFINE w1 == Tree!BeginNode(w, node.name)
             w2 == IF node.reg = 0 THEN w1 ELSE Tree!RegProperty(w1, node.reg)
             w3 == IF node.children = {} THEN w2 ELSE Below(w2, "mmc" \in node.children)
             w4 == Tree!EndNode(w3)
             s1 == <<Tree!Begin(node.name), Tree!Other>>
             s2 == Tree!RegOf(node)
             s3 == Kids(node)
             s4 == <<Tree!End>>
  <1>1. /\ node.name \in {"virtio", "spi", "mmc", "other"} /\ node.reg \in TreeRegs
        /\ node.name = "virtio" => node.children = {}
    BY DEF Plain, Tree!Nodes, Tree!Names, TreeRegs
  <1>2. Tree!NodeTokens(node) = ((s1 \o s2) \o s3) \o s4
    BY DEF Tree!NodeTokens, Kids
  <1>3. /\ w1 \in Walkers /\ w1.disk = 0 /\ w1.reg = 0 /\ w1.spi = w.spi
        /\ w1.type = IF node.name \in {"virtio", "spi"} THEN node.name ELSE "none"
        /\ w1.mmc <=> w.mmc \/ (node.name = "mmc" /\ w.spi # 0)
    BY <1>1, TokenKinds DEF Tree!BeginNode, Walkers
  <1>4. Leads(w, s1, w1) /\ s1 \in Seq(TreeTokens)
    <2> DEFINE a == Tree!Begin(node.name)
               b == Tree!Other
    <2>1. Tree!Walk(w, a) = w1
      BY DEF Tree!Walk, Tree!Begin
    <2>2. Tree!Walk(w1, b) = w1
      BY <1>3 DEF Tree!Walk, Tree!Other
    <2>3. a \in TreeTokens /\ b \in TreeTokens
      BY <1>1, TokenKinds DEF Tree!Names
    <2> HIDE DEF a, b, w1
    <2>4. Leads(w, <<a>>, w1) /\ Leads(w1, <<b>>, w1)
      BY <1>3, <2>1, <2>2, LeadsOne
    <2>5. <<a>> \in Seq(TreeTokens) /\ <<b>> \in Seq(TreeTokens)
      BY <2>3
    <2>6. Leads(w, <<a>> \o <<b>>, w1)
      BY <2>4, <2>5, LeadsOn
    <2>7. <<a>> \o <<b>> = <<a, b>> /\ <<a, b>> \in Seq(TreeTokens)
      BY <2>3, TwoTokens
    <2>8. <<a, b>> = s1
      BY DEF a, b
    <2> HIDE DEF s1
    <2> QED
      BY <2>6, <2>7, <2>8
  <1> HIDE DEF w1
  <1>5. /\ w2 \in Walkers /\ w2.disk = 0 /\ w2.type = w1.type /\ (w2.mmc <=> w1.mmc)
        /\ w2.reg = IF w1.type = "none" THEN 0 ELSE node.reg
        /\ w2.spi = IF HoldsBus(node) THEN node.reg ELSE w.spi
    <2>1. CASE node.reg = 0
      BY <1>1, <1>3, <2>1 DEF HoldsBus
    <2>2. CASE node.reg # 0 /\ w1.type = "none"
      BY <1>1, <1>3, <2>2 DEF HoldsBus, Tree!RegProperty
    <2>3. CASE node.reg # 0 /\ w1.type = "virtio"
      BY <1>1, <1>3, <2>3 DEF HoldsBus, Tree!RegProperty, Walkers
    <2>4. CASE node.reg # 0 /\ w1.type = "spi"
      BY <1>1, <1>3, <2>4 DEF HoldsBus, Tree!RegProperty, Walkers
    <2> QED
      BY <1>1, <1>3, <2>1, <2>2, <2>3, <2>4
  <1>6. Leads(w1, s2, w2) /\ s2 \in Seq(TreeTokens)
    <2>1. CASE node.reg = 0
      BY <1>3, <2>1, LeadsNothing DEF Tree!RegOf
    <2>2. CASE node.reg # 0
      <3> DEFINE a == Tree!Reg(node.reg)
      <3>1. Tree!Walk(w1, a) = w2 /\ a \in TreeTokens
        BY <1>1, <1>3, <2>2, TokenKinds DEF Tree!Walk, Tree!Reg
      <3>2. s2 = <<a>>
        BY <2>2 DEF Tree!RegOf
      <3> HIDE DEF a, w2, s2
      <3>3. Leads(w1, <<a>>, w2)
        BY <1>3, <1>5, <3>1, LeadsOne
      <3> QED
        BY <3>1, <3>2, <3>3
    <2> QED
      BY <2>1, <2>2
  <1> HIDE DEF w2
  <1>7. /\ w3 \in Walkers /\ w3.disk = 0 /\ w3.spi = w2.spi
        /\ w3.type = IF node.children = {} THEN w2.type ELSE "none"
        /\ w3.reg = IF node.children = {} THEN w2.reg ELSE 0
        /\ w3.mmc <=> w2.mmc \/ ("mmc" \in node.children /\ w2.spi # 0)
    <2>1. CASE node.children = {}
      BY <1>5, <2>1
    <2>2. CASE node.children # {}
      BY <1>5, <2>2, TokenKinds DEF Below, Walkers
    <2> QED
      BY <2>1, <2>2
  <1>8. Leads(w2, s3, w3) /\ s3 \in Seq(TreeTokens)
    BY <1>5, KidsWalked
  <1> HIDE DEF w3
  <1>9. w4 \in Walkers /\ AtItsEnd(w, node, w4)
    <2>1. CASE HoldsDisk(node)
      <3>1. w3.type = "virtio" /\ w3.reg = node.reg
        BY <1>1, <1>3, <1>5, <1>7, <2>1 DEF HoldsDisk
      <3>2. w4 = [w3 EXCEPT !.disk = node.reg]
        BY <2>1, <3>1 DEF Tree!EndNode, HoldsDisk
      <3>3. w4 \in Walkers /\ w4.disk = node.reg
        BY <1>1, <1>7, <3>2 DEF Walkers
      <3> QED
        BY <2>1, <3>3 DEF AtItsEnd
    <2>2. CASE ~HoldsDisk(node)
      <3>1. w3.type = "virtio" => ~(w3.reg # 0 /\ MmioDevice[w3.reg] = "block")
        BY <1>1, <1>3, <1>5, <1>7, <2>2 DEF HoldsDisk
      <3>2. w3.type = "spi" /\ w3.reg # 0 => w3.spi = w3.reg
        BY <1>1, <1>3, <1>5, <1>7 DEF HoldsBus
      <3>3. [w3 EXCEPT !.spi = w3.spi] = w3
        BY <1>7 DEF Walkers
      <3>4. w4 = w3
        BY <3>1, <3>2, <3>3 DEF Tree!EndNode
      <3>5. Settled(w3)
        BY <3>1, <3>2 DEF Settled
      <3>6. w3.spi = IF HoldsBus(node) THEN node.reg ELSE w.spi
        BY <1>5, <1>7
      <3>7. w3.mmc <=> \/ w.mmc
                       \/ node.name = "mmc" /\ w.spi # 0
                       \/ "mmc" \in node.children /\ w3.spi # 0
        BY <1>3, <1>5, <1>7
      <3> QED
        BY <1>7, <2>2, <3>4, <3>5, <3>6, <3>7 DEF AtItsEnd
    <2> QED
      BY <2>1, <2>2
  <1>10. Leads(w3, s4, w4) /\ s4 \in Seq(TreeTokens)
    <2> DEFINE a == Tree!End
    <2>1. Tree!Walk(w3, a) = w4 /\ a \in TreeTokens
      BY <1>7, TokenKinds DEF Tree!Walk, Tree!End
    <2> HIDE DEF a, w4
    <2>2. Leads(w3, <<a>>, w4)
      BY <1>7, <1>9, <2>1, LeadsOne
    <2> QED
      BY <2>1, <2>2 DEF a
  <1> HIDE DEF w4, s1, s2, s3, s4
  <1>11. Leads(w, s1 \o s2, w2) /\ s1 \o s2 \in Seq(TreeTokens)
    BY <1>4, <1>6, LeadsOn
  <1>12. Leads(w, (s1 \o s2) \o s3, w3) /\ (s1 \o s2) \o s3 \in Seq(TreeTokens)
    <2> DEFINE x == s1 \o s2
    <2>1. x \in Seq(TreeTokens) /\ Leads(w, x, w2)
      BY <1>11
    <2> HIDE DEF x
    <2>2. Leads(w, x \o s3, w3) /\ x \o s3 \in Seq(TreeTokens)
      BY <1>8, <2>1, LeadsOn
    <2> QED
      BY <2>2 DEF x
  <1>13. Leads(w, ((s1 \o s2) \o s3) \o s4, w4) /\ ((s1 \o s2) \o s3) \o s4 \in Seq(TreeTokens)
    <2> DEFINE x == (s1 \o s2) \o s3
    <2>1. x \in Seq(TreeTokens) /\ Leads(w, x, w3)
      BY <1>12
    <2> HIDE DEF x
    <2>2. Leads(w, x \o s4, w4) /\ x \o s4 \in Seq(TreeTokens)
      BY <1>10, <2>1, LeadsOn
    <2> QED
      BY <2>2 DEF x
  <1> QED
    BY <1>2, <1>9, <1>13

\* What the walk has found when it is through with the first m nodes of a board.
FoundSoFar(nodes, m, u) ==
    IF \E i \in 1 .. m : HoldsDisk(nodes[i])
    THEN /\ u.disk # 0
         /\ \E i \in 1 .. m : /\ HoldsDisk(nodes[i]) /\ u.disk = nodes[i].reg
                              /\ \A j \in 1 .. i - 1 : ~HoldsDisk(nodes[j])
    ELSE /\ u.disk = 0 /\ Settled(u)
         /\ u.spi = 0 => \A i \in 1 .. m : ~HoldsBus(nodes[i])
         /\ u.spi # 0 => \E i \in 1 .. m : /\ HoldsBus(nodes[i]) /\ u.spi = nodes[i].reg
                                           /\ \A j \in i + 1 .. m : ~HoldsBus(nodes[j])
         /\ u.mmc <=> \E i \in 1 .. m : HoldsCard(nodes[i])

LEMMA OneNodeMore ==
    ASSUME NEW nodes \in Seq(Tree!Nodes), Tree!Understood(nodes), NEW m \in Nat, m + 1 <= Len(nodes),
           NEW w \in Walkers, FoundSoFar(nodes, m, w)
    PROVE  /\ Tree!NodeTokens(nodes[m + 1]) \in Seq(TreeTokens)
           /\ \E u \in Walkers : /\ Leads(w, Tree!NodeTokens(nodes[m + 1]), u)
                                 /\ FoundSoFar(nodes, m + 1, u)
  <1> DEFINE n == nodes[m + 1]
             Disk(k) == \E i \in 1 .. k : HoldsDisk(nodes[i])
  <1>1. Len(nodes) \in Nat /\ m + 1 \in DOMAIN nodes /\ DOMAIN nodes = 1 .. Len(nodes)
    OBVIOUS
  <1>2. 1 .. m + 1 = 1 .. m \cup {m + 1} /\ m + 1 \notin 1 .. m
    OBVIOUS
  <1>3. Plain(n)
    <2>1. n \in Tree!Nodes
      BY <1>1
    <2>2. n.children \subseteq {"virtio", "spi", "mmc", "other"}
      BY <2>1 DEF Tree!Nodes, Tree!Names
    <2>3. /\ n.name = "virtio" => n.children = {}
          /\ "spi" \notin n.children /\ "virtio" \notin n.children
      BY <1>1 DEF Tree!Understood
    <2> HIDE DEF n
    <2> QED
      BY <2>1, <2>2, <2>3 DEF Plain
  <1>4. Disk(m + 1) <=> Disk(m) \/ HoldsDisk(n)
    BY <1>2
  <1>5. CASE Disk(m)
    <2>1. Tree!NodeTokens(n) \in Seq(TreeTokens)
      <3> DEFINE v == [Tree!Start EXCEPT !.disk = 0]
      <3>1. v \in Walkers /\ v.disk = 0 /\ Settled(v)
        BY TokenKinds DEF Tree!Start, Walkers, Settled
      <3> HIDE DEF v, n
      <3> QED
        BY <1>3, <3>1, NodeWalked
    <2>2. w.disk # 0
      BY <1>5 DEF FoundSoFar
    <2>3. Leads(w, Tree!NodeTokens(n), w)
      <3> HIDE DEF n
      <3> QED
        BY <2>1, <2>2, DiskStays
    <2>4. PICK i \in 1 .. m : HoldsDisk(nodes[i]) /\ w.disk = nodes[i].reg /\ \A j \in 1 .. i - 1 : ~HoldsDisk(nodes[j])
      BY <1>5 DEF FoundSoFar
    <2>5. i \in 1 .. m + 1
      OBVIOUS
    <2>6. FoundSoFar(nodes, m + 1, w)
      BY <1>4, <1>5, <2>2, <2>4, <2>5, Zenon DEF FoundSoFar
    <2> QED
      BY <2>1, <2>3, <2>6
  <1>6. CASE ~Disk(m)
    <2>1. /\ w.disk = 0 /\ Settled(w)
          /\ w.spi = 0 => \A i \in 1 .. m : ~HoldsBus(nodes[i])
          /\ w.spi # 0 => \E i \in 1 .. m : /\ HoldsBus(nodes[i]) /\ w.spi = nodes[i].reg
                                            /\ \A j \in i + 1 .. m : ~HoldsBus(nodes[j])
          /\ w.mmc <=> \E i \in 1 .. m : HoldsCard(nodes[i])
      BY <1>6, Zenon DEF FoundSoFar
    <2>2. PICK u \in Walkers : Leads(w, Tree!NodeTokens(n), u) /\ AtItsEnd(w, n, u)
      <3> HIDE DEF n
      <3> QED
        BY <1>3, <2>1, NodeWalked
    <2>3. Tree!NodeTokens(n) \in Seq(TreeTokens)
      <3> HIDE DEF n
      <3> QED
        BY <1>3, <2>1, NodeWalked
    <2>4. CASE HoldsDisk(n)
      <3>1. u.disk = n.reg /\ n.reg # 0
        BY <2>2, <2>4 DEF AtItsEnd, HoldsDisk
      <3>2. \A j \in 1 .. (m + 1) - 1 : ~HoldsDisk(nodes[j])
        <4>1. (m + 1) - 1 = m
          OBVIOUS
        <4> QED
          BY <1>6, <4>1
      <3>3. m + 1 \in 1 .. m + 1
        OBVIOUS
      <3>4. FoundSoFar(nodes, m + 1, u)
        BY <2>4, <3>1, <3>2, <3>3, Zenon DEF FoundSoFar
      <3> QED
        BY <2>2, <2>3, <3>4
    <2>5. CASE ~HoldsDisk(n)
      <3>1. /\ u.disk = 0 /\ Settled(u)
            /\ u.spi = IF HoldsBus(n) THEN n.reg ELSE w.spi
            /\ u.mmc <=> \/ w.mmc
                         \/ n.name = "mmc" /\ w.spi # 0
                         \/ "mmc" \in n.children /\ u.spi # 0
        BY <2>2, <2>5 DEF AtItsEnd
      <3>2. u.spi = 0 => \A i \in 1 .. m + 1 : ~HoldsBus(nodes[i])
        <4> SUFFICES ASSUME u.spi = 0 PROVE \A i \in 1 .. m + 1 : ~HoldsBus(nodes[i])
          OBVIOUS
        <4>1. ~HoldsBus(n)
          BY <3>1 DEF HoldsBus
        <4> QED
          BY <1>2, <2>1, <3>1, <4>1
      <3>3. u.spi # 0 => \E i \in 1 .. m + 1 : /\ HoldsBus(nodes[i]) /\ u.spi = nodes[i].reg
                                               /\ \A j \in i + 1 .. m + 1 : ~HoldsBus(nodes[j])
        <4>1. CASE HoldsBus(n)
          <5>1. m + 1 \in 1 .. m + 1 /\ \A j \in (m + 1) + 1 .. m + 1 : ~HoldsBus(nodes[j])
            OBVIOUS
          <5>2. HoldsBus(nodes[m + 1]) /\ u.spi = nodes[m + 1].reg
            BY <3>1, <4>1
          <5> QED
            BY <5>1, <5>2, Zenon
        <4>2. CASE ~HoldsBus(n) /\ u.spi # 0
          <5>1. u.spi = w.spi /\ w.spi # 0
            BY <3>1, <4>2
          <5>2. PICK i \in 1 .. m : /\ HoldsBus(nodes[i]) /\ w.spi = nodes[i].reg
                                    /\ \A j \in i + 1 .. m : ~HoldsBus(nodes[j])
            BY <2>1, <5>1, Zenon
          <5>3. i \in 1 .. m + 1 /\ \A j \in i + 1 .. m + 1 : j \in i + 1 .. m \/ j = m + 1
            OBVIOUS
          <5>4. \A j \in i + 1 .. m + 1 : ~HoldsBus(nodes[j])
            BY <4>2, <5>2, <5>3, Zenon
          <5> QED
            BY <5>1, <5>2, <5>3, <5>4, Zenon
        <4> QED
          BY <4>1, <4>2
      <3>4. u.mmc <=> \E i \in 1 .. m + 1 : HoldsCard(nodes[i])
        <4>1. (\E i \in 1 .. m + 1 : HoldsCard(nodes[i])) <=> (\E i \in 1 .. m : HoldsCard(nodes[i])) \/ HoldsCard(n)
          BY <1>2
        <4>2. ASSUME w.spi # 0
              PROVE  n.name # "mmc" /\ ("mmc" \in n.children => HoldsBus(n))
          <5>1. PICK i \in 1 .. m : HoldsBus(nodes[i])
            BY <2>1, <4>2
          <5>2. i \in DOMAIN nodes /\ i < m + 1
            BY <1>1
          <5> QED
            BY <1>1, <5>1, <5>2 DEF Tree!Understood, HoldsBus
        <4>3. CASE HoldsBus(n)
          <5>1. n.name = "spi" /\ u.spi # 0
            BY <3>1, <4>3 DEF HoldsBus
          <5>2. HoldsCard(n) <=> "mmc" \in n.children
            BY <4>3 DEF HoldsCard
          <5> QED
            BY <2>1, <3>1, <4>1, <5>1, <5>2
        <4>4. CASE ~HoldsBus(n)
          <5>1. ~HoldsCard(n) /\ u.spi = w.spi
            BY <3>1, <4>4 DEF HoldsCard
          <5>2. u.mmc <=> w.mmc
            BY <3>1, <4>2, <4>4, <5>1
          <5> QED
            BY <2>1, <4>1, <5>1, <5>2
        <4> QED
          BY <4>3, <4>4
      <3>5. FoundSoFar(nodes, m + 1, u)
        <4>1. ~Disk(m + 1)
          BY <1>4, <1>6, <2>5
        <4> QED
          BY <3>1, <3>2, <3>3, <3>4, <4>1, Zenon DEF FoundSoFar
      <3> QED
        BY <2>2, <2>3, <3>5
    <2> QED
      BY <2>4, <2>5
  <1> QED
    BY <1>5, <1>6

LEMMA NodesWalked ==
    ASSUME NEW nodes \in Seq(Tree!Nodes), Tree!Understood(nodes)
    PROVE  LET list == Tree!FlattenSeq([i \in 1 .. Len(nodes) |-> Tree!NodeTokens(nodes[i])])
           IN  /\ list \in Seq(TreeTokens)
               /\ \E u \in Walkers : Leads(Tree!Start, list, u) /\ FoundSoFar(nodes, Len(nodes), u)
  <1> DEFINE n == Len(nodes)
             seqs == [i \in 1 .. n |-> Tree!NodeTokens(nodes[i])]
  <1>1. n \in Nat
    OBVIOUS
  <1>2. Tree!Start \in Walkers /\ FoundSoFar(nodes, 0, Tree!Start)
    BY TokenKinds DEF Tree!Start, Walkers, FoundSoFar, Settled
  <1>3. ASSUME NEW i \in 1 .. n PROVE Tree!NodeTokens(nodes[i]) \in Seq(TreeTokens)
    <2>1. i \in DOMAIN nodes /\ nodes[i] \in Tree!Nodes
      BY <1>1
    <2>2. Plain(nodes[i])
      <3>1. nodes[i].children \subseteq {"virtio", "spi", "mmc", "other"}
        BY <2>1 DEF Tree!Nodes, Tree!Names
      <3>2. /\ nodes[i].name = "virtio" => nodes[i].children = {}
            /\ "spi" \notin nodes[i].children /\ "virtio" \notin nodes[i].children
        BY <2>1 DEF Tree!Understood
      <3> QED
        BY <2>1, <3>1, <3>2 DEF Plain
    <2>3. Tree!Start.disk = 0 /\ Settled(Tree!Start)
      BY DEF Tree!Start, Settled
    <2> QED
      BY <1>2, <2>2, <2>3, NodeWalked
  <1>4. seqs \in Seq(Seq(TreeTokens)) /\ Len(seqs) = n /\ \A i \in 1 .. n : seqs[i] = Tree!NodeTokens(nodes[i])
    <2> HIDE DEF n
    <2> QED
      BY <1>1, <1>3
  <1> HIDE DEF seqs, n
  <1>5. PICK f \in [0 .. n -> Seq(TreeTokens)] :
          f[0] = <<>> /\ f[n] = Tree!FlattenSeq(seqs) /\ \A i \in 1 .. n : f[i] = f[i - 1] \o seqs[i]
    <2>1. InSteps(seqs, TreeTokens)
      <3>1. seqs \in Seq(Seq(TreeTokens))
        BY <1>4
      <3> QED
        BY <3>1, FlattenSteps
    <2> QED
      BY <1>4, <2>1, Zenon DEF InSteps
  <1> DEFINE There(k) == \E u \in Walkers : Leads(Tree!Start, f[k], u) /\ FoundSoFar(nodes, k, u)
             Good == {k \in Nat : k <= n => There(k)}
  <1>6. 0 \in Good
    <2>1. There(0)
      BY <1>2, <1>5, LeadsNothing
    <2> HIDE DEF There
    <2> QED
      BY <2>1
  <1>7. ASSUME NEW k \in Nat, k \in Good PROVE k + 1 \in Good
    <2> SUFFICES ASSUME k + 1 <= n PROVE There(k + 1)
      <3> HIDE DEF There
      <3> QED
        OBVIOUS
    <2>1. k \in 0 .. n /\ k + 1 \in 1 .. n /\ k <= n /\ (k + 1) - 1 = k
      BY <1>1
    <2>2. There(k)
      <3> HIDE DEF There
      <3> QED
        BY <1>7, <2>1
    <2>3. PICK w \in Walkers : Leads(Tree!Start, f[k], w) /\ FoundSoFar(nodes, k, w)
      BY <2>2
    <2>4. /\ Tree!NodeTokens(nodes[k + 1]) \in Seq(TreeTokens)
          /\ \E u \in Walkers : Leads(w, Tree!NodeTokens(nodes[k + 1]), u) /\ FoundSoFar(nodes, k + 1, u)
      BY <2>3, OneNodeMore DEF n
    <2>5. PICK u \in Walkers : Leads(w, Tree!NodeTokens(nodes[k + 1]), u) /\ FoundSoFar(nodes, k + 1, u)
      BY <2>4
    <2>6. f[k + 1] = f[k] \o Tree!NodeTokens(nodes[k + 1]) /\ f[k] \in Seq(TreeTokens)
      <3>1. f[k + 1] = f[(k + 1) - 1] \o seqs[k + 1]
        BY <1>5, <2>1, Zenon
      <3> QED
        BY <1>4, <1>5, <2>1, <3>1
    <2>7. Leads(Tree!Start, f[k + 1], u)
      BY <2>3, <2>4, <2>5, <2>6, LeadsOn
    <2> QED
      BY <2>5, <2>7
  <1> HIDE DEF Good, There
  <1>8. n \in Good
    BY <1>1, <1>6, <1>7, Upwards
  <1>9. There(n)
    <2>1. n <= n
      BY <1>1
    <2> QED
      BY <1>8, <2>1 DEF Good
  <1>10. f[n] \in Seq(TreeTokens)
    BY <1>1, <1>5
  <1> QED
    BY <1>5, <1>9, <1>10 DEF seqs, n, There

\* The first of some numbers.
LEMMA FirstOf ==
    ASSUME NEW S, NEW x \in S, S \subseteq Nat, \A y \in S : x <= y
    PROVE  Tree!Min(S) = x
  <1> DEFINE m == CHOOSE y \in S : \A z \in S : y <= z
  <1>1. Tree!Min(S) = m
    BY DEF Tree!Min
  <1>2. m \in S /\ \A z \in S : m <= z
    OBVIOUS
  <1>3. m <= x /\ x <= m /\ m \in Nat /\ x \in Nat
    BY <1>2
  <1> HIDE DEF m
  <1> QED
    BY <1>1, <1>3

\* On every board a walk without a stack understands, the walk finds what the
\* nodes of the board describe.
LEMMA WalkFinds ==
    ASSUME NEW nodes \in Seq(Tree!Nodes), Tree!Understood(nodes)
    PROVE  Tree!fdt_find_storage(Tree!Tokens(nodes)) = Tree!Storage(nodes)
  <1> DEFINE t == Tree!FlattenSeq([i \in 1 .. Len(nodes) |-> Tree!NodeTokens(nodes[i])])
             a == <<Tree!Begin("other")>>
             b == <<Tree!End>>
             n == Len(nodes)
  <1>1. t \in Seq(TreeTokens) /\ \E u \in Walkers : Leads(Tree!Start, t, u) /\ FoundSoFar(nodes, n, u)
    BY NodesWalked
  <1>2. PICK u \in Walkers : Leads(Tree!Start, t, u) /\ FoundSoFar(nodes, n, u)
    BY <1>1
  <1>3. Tree!Tokens(nodes) = (a \o t) \o b
    BY DEF Tree!Tokens
  <1> HIDE DEF t
  <1>4. a \in Seq(TreeTokens) /\ b \in Seq(TreeTokens)
    BY TokenKinds DEF Tree!Names
  <1>5. Tree!Start \in Walkers
    BY TokenKinds DEF Tree!Start, Walkers
  <1>6. Leads(Tree!Start, a, Tree!Start)
    <2>1. Tree!Walk(Tree!Start, Tree!Begin("other")) = Tree!Start
      BY DEF Tree!Walk, Tree!Begin, Tree!BeginNode, Tree!Start
    <2> QED
      BY <1>5, <2>1, LeadsOne
  <1>7. u.disk = 0 => Settled(u)
    BY <1>2 DEF FoundSoFar
  <1>8. Leads(u, b, u)
    <2>1. Tree!Walk(u, Tree!End) = u
      <3>1. CASE u.disk # 0
        BY <3>1 DEF Tree!Walk
      <3>2. CASE u.disk = 0
        <4>1. [u EXCEPT !.spi = u.spi] = u
          BY DEF Walkers
        <4>2. Tree!EndNode(u) = u
          BY <1>7, <3>2, <4>1 DEF Tree!EndNode, Settled
        <4> QED
          BY <3>2, <4>2 DEF Tree!Walk, Tree!End
      <3> QED
        BY <3>1, <3>2
    <2> QED
      BY <2>1, LeadsOne
  <1> HIDE DEF a, b
  <1>9. Leads(Tree!Start, a \o t, u) /\ a \o t \in Seq(TreeTokens)
    BY <1>1, <1>2, <1>4, <1>6, LeadsOn
  <1>10. Leads(Tree!Start, (a \o t) \o b, u) /\ (a \o t) \o b \in Seq(TreeTokens)
    <2> DEFINE x == a \o t
    <2>1. x \in Seq(TreeTokens) /\ Leads(Tree!Start, x, u)
      BY <1>9
    <2> HIDE DEF x
    <2>2. Leads(Tree!Start, x \o b, u) /\ x \o b \in Seq(TreeTokens)
      BY <1>4, <1>8, <2>1, LeadsOn
    <2> QED
      BY <2>2 DEF x
  <1>11. Tree!fdt_find_storage(Tree!Tokens(nodes)) =
           IF u.disk # 0 THEN [kind |-> "virtio", base |-> u.disk]
           ELSE IF u.mmc /\ u.spi # 0 THEN [kind |-> "spi_sd", base |-> u.spi]
           ELSE Tree!NotFound
    BY <1>3, <1>10, WalkEnds
  <1>12. DOMAIN nodes = 1 .. n /\ n \in Nat
    OBVIOUS
  <1> HIDE DEF n
  <1>13. Tree!Disks(nodes) = {i \in 1 .. n : HoldsDisk(nodes[i])}
    BY <1>12 DEF Tree!Disks, HoldsDisk
  <1>14. Tree!Cards(nodes) = {i \in 1 .. n : HoldsCard(nodes[i])}
    BY <1>12 DEF Tree!Cards, HoldsCard, HoldsBus
  <1>15. CASE \E i \in 1 .. n : HoldsDisk(nodes[i])
    <2>1. PICK i \in 1 .. n : HoldsDisk(nodes[i]) /\ u.disk = nodes[i].reg /\ \A j \in 1 .. i - 1 : ~HoldsDisk(nodes[j])
      BY <1>2, <1>15 DEF FoundSoFar
    <2>2. i \in Tree!Disks(nodes) /\ Tree!Disks(nodes) \subseteq Nat
      BY <1>12, <1>13, <2>1
    <2>3. \A j \in Tree!Disks(nodes) : i <= j
      <3> SUFFICES ASSUME NEW j \in 1 .. n, HoldsDisk(nodes[j]), ~(i <= j) PROVE FALSE
        BY <1>13
      <3>1. j \in 1 .. i - 1
        BY <1>12
      <3> QED
        BY <2>1, <3>1
    <2>4. Tree!Min(Tree!Disks(nodes)) = i
      BY <2>2, <2>3, FirstOf
    <2>5. Tree!Storage(nodes) = [kind |-> "virtio", base |-> u.disk]
      BY <2>1, <2>2, <2>4 DEF Tree!Storage
    <2>6. u.disk # 0
      BY <1>2, <1>15 DEF FoundSoFar
    <2> QED
      BY <1>11, <2>5, <2>6
  <1>16. CASE ~ \E i \in 1 .. n : HoldsDisk(nodes[i])
    <2>1. /\ u.disk = 0
          /\ u.spi = 0 => \A i \in 1 .. n : ~HoldsBus(nodes[i])
          /\ u.spi # 0 => \E i \in 1 .. n : /\ HoldsBus(nodes[i]) /\ u.spi = nodes[i].reg
                                            /\ \A j \in i + 1 .. n : ~HoldsBus(nodes[j])
          /\ u.mmc <=> \E i \in 1 .. n : HoldsCard(nodes[i])
      BY <1>2, <1>16, Zenon DEF FoundSoFar
    <2>2. Tree!Disks(nodes) = {}
      BY <1>13, <1>16
    <2>3. CASE ~u.mmc
      <3>1. Tree!Cards(nodes) = {}
        BY <1>14, <2>1, <2>3
      <3> QED
        BY <1>11, <2>1, <2>2, <2>3, <3>1 DEF Tree!Storage
    <2>4. CASE u.mmc
      <3>1. PICK c \in 1 .. n : HoldsCard(nodes[c])
        BY <2>1, <2>4
      <3>2. HoldsBus(nodes[c]) /\ u.spi # 0
        BY <2>1, <3>1 DEF HoldsCard
      <3>3. PICK i \in 1 .. n : HoldsBus(nodes[i]) /\ u.spi = nodes[i].reg /\ \A j \in i + 1 .. n : ~HoldsBus(nodes[j])
        BY <2>1, <3>2
      <3>4. ASSUME NEW x \in 1 .. n, HoldsCard(nodes[x]) PROVE x = i
        <4>1. HoldsBus(nodes[x]) /\ x \in Tree!Cards(nodes)
          BY <1>14, <3>4 DEF HoldsCard
        <4>2. ~(x > i)
          <5> SUFFICES ASSUME x > i PROVE FALSE
            OBVIOUS
          <5>1. x \in i + 1 .. n
            BY <1>12
          <5> QED
            BY <3>3, <4>1, <5>1
        <4>3. ~(i > x)
          <5> SUFFICES ASSUME i > x PROVE FALSE
            OBVIOUS
          <5>1. nodes[i].name # "spi" \/ nodes[i].reg = 0
            BY <1>12, <4>1 DEF Tree!Understood
          <5> QED
            BY <3>3, <5>1 DEF HoldsBus
        <4> QED
          BY <1>12, <4>2, <4>3
      <3>5. Tree!Cards(nodes) = {i}
        BY <1>14, <3>1, <3>4
      <3>6. Tree!Min(Tree!Cards(nodes)) = i
        <4> DEFINE S == Tree!Cards(nodes)
        <4>1. i \in S /\ S \subseteq Nat /\ \A y \in S : i <= y
          BY <1>12, <3>5
        <4> HIDE DEF S
        <4> QED
          BY <4>1, FirstOf DEF S
      <3>7. Tree!Storage(nodes) = [kind |-> "spi_sd", base |-> u.spi]
        BY <2>2, <3>3, <3>5, <3>6 DEF Tree!Storage
      <3> QED
        BY <1>11, <2>1, <2>4, <3>2, <3>7
    <2> QED
      BY <2>3, <2>4
  <1> QED
    BY <1>15, <1>16

\* What main holds of the tree while it goes by it.
Searched ==
    /\ boot \in {"find", "dispatch"} => board \in Boards
    /\ boot = "dispatch" => found = Tree!fdt_find_storage(Tree!Tokens(board))

\* Whatever the boards are: if a walk without a stack can understand a board,
\* fdt_find_storage returns the first disk its nodes describe, or else the
\* controller its card is below, or that there is none.
THEOREM StorageFound == StorageSpec => []FindsTheDevice
  <1>1. StorageInit => Searched
    BY DEF StorageInit, Searched
  <1>2. Searched /\ [StorageNext]_all => Searched'
    <2> SUFFICES ASSUME Searched, [StorageNext]_all PROVE Searched'
      OBVIOUS
    <2>1. CASE Find
      BY <2>1 DEF Find, Searched
    <2>2. CASE Dispatch
      <3>1. found = Tree!fdt_find_storage(Tree!Tokens(board))
        BY <2>2 DEF Dispatch, Searched
      <3>2. found.kind \in {"virtio", "spi_sd", "none"}
        BY <3>1 DEF Tree!fdt_find_storage, Tree!NotFound
      <3>3. boot' \in {"virtio", "spi_sd", "halted"}
        BY <2>2, <3>2 DEF Dispatch
      <3> QED
        BY <3>3 DEF Searched
    <2>3. CASE OnVirtio \/ OnCard \/ OnHost
      BY <2>3 DEF OnVirtio, OnCard, OnHost, booting, Searched
    <2>4. CASE UNCHANGED all
      BY <2>4 DEF all, booting, Searched
    <2> QED
      BY <2>1, <2>2, <2>3, <2>4 DEF StorageNext
  <1>3. Searched => FindsTheDevice
    BY BoardsAssumption, WalkFinds DEF Searched, FindsTheDevice
  <1> QED
    BY <1>1, <1>2, <1>3, PTL DEF StorageSpec
=============================================================================
