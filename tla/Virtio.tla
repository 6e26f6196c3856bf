------------------------------- MODULE Virtio -------------------------------
(***************************************************************************)
(* The VirtIO block driver of stage 2 and the device, which work on shared *)
(* memory: three descriptors, the ring of what is available and the ring   *)
(* of what was used.  The driver takes over a device stage 1 has already   *)
(* used, and has one request under way at a time; it waits by looking at   *)
(* the index of the used ring.  Every entry of the available ring is 0,    *)
(* the descriptor each request starts with: only its index matters.        *)
(***************************************************************************)
EXTENDS Naturals

CONSTANTS
    Sectors,          \* sector numbers
    Values,           \* what a sector or a buffer can hold
    IndexSize,        \* 2^16: the indexes of the rings are halfwords
    None              \* no request

ASSUME VirtioAssumption ==
    /\ IndexSize \in Nat /\ IndexSize > 1
    /\ None \notin [op : {"read", "write"}, sector : Sectors]

Pending == 255        \* the status of a request under way
Ok == 0
IoError == 1

VARIABLES
    \* the driver: where it is, the used index it saw (s0), what it returned
    pc, saved, result,
    \* memory it shares with the device
    header, writable, memory, status, avail_idx, used_idx,
    \* the device: running, the requests it took, the one it works on, how far
    live, taken, work, stage,
    content

driver == <<pc, saved, result>>
shared == <<header, writable, memory, status, avail_idx, used_idx>>
device == <<live, taken, work, stage>>
vars == <<driver, shared, device, content>>

Requests == [op : {"read", "write"}, sector : Sectors]
Indexes == 0 .. IndexSize - 1

\* The index behind this one, in a halfword.
After(i) == (i + 1) % IndexSize

\* Stage 1 left the device running, with any number of requests behind it.
Init ==
    /\ pc = "reset" /\ saved = 0 /\ result = Ok
    /\ header \in Requests /\ writable = (header.op = "read")
    /\ memory \in Values /\ content \in [Sectors -> Values]
    /\ status = Ok
    /\ avail_idx \in Indexes /\ used_idx = avail_idx
    /\ live = TRUE /\ taken = avail_idx /\ work = None /\ stage = "idle"

-----------------------------------------------------------------------------
(* virtio_init *)

\* The device forgets what it took.
Reset ==
    /\ pc = "reset"
    /\ pc' = "clear"
    /\ live' = FALSE /\ taken' = 0 /\ work' = None /\ stage' = "idle"
    /\ UNCHANGED <<saved, result, shared, content>>

\* Mutant: the structures are not zeroed.
AsLeft == avail_idx

Zeroed == 0

\* The structures are zeroed before the device runs again.
Clear ==
    /\ pc = "clear"
    /\ pc' = "start"
    /\ avail_idx' = Zeroed /\ used_idx' = 0
    /\ UNCHANGED <<saved, result, header, writable, memory, status, device, content>>

Start ==
    /\ pc = "start"
    /\ pc' = "idle"
    /\ live' = TRUE
    /\ UNCHANGED <<saved, result, shared, taken, work, stage, content>>

-----------------------------------------------------------------------------
(* virtio_read_sector and virtio_write_sector *)

\* The request header, the used index as it is before, and a status no device
\* writes.
Enter(r, v) ==
    /\ pc = "idle"
    /\ pc' = "describe"
    /\ saved' = used_idx
    /\ header' = r
    /\ memory' = v
    /\ status' = Pending
    /\ UNCHANGED <<result, writable, avail_idx, used_idx, device, content>>

\* Mutant: the data are always for the device to read.
ReadOnly == FALSE

DeviceWrites == header.op = "read"

\* The data descriptor is for the device to write when it is to be read.
Describe ==
    /\ pc = "describe"
    /\ pc' = "publish"
    /\ writable' = DeviceWrites
    /\ UNCHANGED <<saved, result, header, memory, status, avail_idx, used_idx, device, content>>

NextAvailable == After(avail_idx)

\* From here on the device may take the request, notified or not.
Publish ==
    /\ pc = "publish"
    /\ pc' = "notify"
    /\ avail_idx' = NextAvailable
    /\ UNCHANGED <<saved, result, header, writable, memory, status, used_idx, device, content>>

\* Mutant: the used index is taken down when the request is out.
NotifyThenSave ==
    /\ pc = "notify"
    /\ pc' = "poll"
    /\ saved' = used_idx
    /\ UNCHANGED <<result, shared, device, content>>

Notify ==
    /\ pc = "notify"
    /\ pc' = "poll"
    /\ UNCHANGED <<saved, result, shared, device, content>>

\* Mutant: the driver waits for a larger index.
Larger == used_idx > saved

Used == used_idx # saved

\* The used index has moved: the status byte is the result.
Poll ==
    /\ pc = "poll"
    /\ Used
    /\ pc' = "idle"
    /\ result' = status
    /\ UNCHANGED <<saved, shared, device, content>>

Driver ==
    \/ Reset \/ Clear \/ Start
    \/ \E r \in Requests, v \in Values : Enter(r, v)
    \/ Describe \/ Publish \/ Notify \/ Poll

-----------------------------------------------------------------------------
(* The device, as the driver relies on it *)

Take ==
    /\ live /\ stage = "idle" /\ taken # avail_idx
    /\ work' = header
    /\ taken' = After(taken)
    /\ stage' = "taken"
    /\ UNCHANGED <<driver, shared, live, content>>

Move ==
    /\ stage = "taken"
    /\ stage' = "moved"
    /\ \/ work.op = "read" /\ writable
          /\ memory' = content[work.sector] /\ UNCHANGED content
       \/ work.op = "write" /\ ~writable
          /\ content' = [content EXCEPT ![work.sector] = memory] /\ UNCHANGED memory
    /\ UNCHANGED <<driver, header, writable, status, avail_idx, used_idx, live, taken, work>>

Answer ==
    /\ stage = "moved"
    /\ stage' = "answered"
    /\ status' = Ok
    /\ UNCHANGED <<driver, header, writable, memory, avail_idx, used_idx, live, taken, work, content>>

\* A bad sector, or a descriptor that does not fit the request.
Refuse ==
    /\ stage = "taken"
    /\ stage' = "answered"
    /\ status' = IoError
    /\ UNCHANGED <<driver, header, writable, memory, avail_idx, used_idx, live, taken, work, content>>

Return ==
    /\ stage = "answered"
    /\ stage' = "idle"
    /\ used_idx' = After(used_idx)
    /\ work' = None
    /\ UNCHANGED <<driver, header, writable, memory, status, avail_idx, live, taken, content>>

Device == Take \/ Move \/ Answer \/ Refuse \/ Return

Next == Driver \/ Device

Spec == Init /\ [][Next]_vars

-----------------------------------------------------------------------------
(* Properties *)

TypeOK ==
    /\ pc \in {"reset", "clear", "start", "idle", "describe", "publish", "notify", "poll"}
    /\ {saved, avail_idx, used_idx, taken} \subseteq Indexes
    /\ result \in {Ok, IoError}
    /\ header \in Requests /\ writable \in BOOLEAN /\ memory \in Values
    /\ status \in {Ok, IoError, Pending}
    /\ live \in BOOLEAN /\ work \in Requests \cup {None}
    /\ stage \in {"idle", "taken", "moved", "answered"}
    /\ content \in [Sectors -> Values]

\* A descriptor and the header belong to the driver or to the device, never to
\* both: the device is at rest whenever the driver writes them, and what it
\* works on is the call under way.
OneOwner ==
    /\ pc \notin {"notify", "poll"} => stage = "idle" /\ (live => taken = avail_idx)
    /\ stage # "idle" => work = header /\ writable = (header.op = "read")

\* The sector moves, or the call fails, and the result says so: for the caller of disk_read_sector the
\* rings, the device and the wrap of the indexes are not there.
Promise == INSTANCE Disk WITH
    phase <- IF pc \in {"reset", "clear", "start", "idle"} THEN "idle"
             ELSE IF stage = "moved" \/ status = Ok THEN "ok"
             ELSE IF status = IoError THEN "failed" ELSE "called",
    request <- header

ImplementsDisk == Promise!Spec

-----------------------------------------------------------------------------
(* The inductive invariant *)

\* Nothing is under way: both sides count the same.
AtRest == stage = "idle" /\ work = None /\ taken = avail_idx /\ used_idx = avail_idx

\* The request is out and not taken yet ...
Waiting == /\ stage = "idle" /\ work = None /\ status = Pending
           /\ taken = saved /\ used_idx = saved /\ avail_idx = After(saved)

\* ... the device works on it ...
Working == /\ stage # "idle" /\ work = header
           /\ taken = avail_idx /\ used_idx = saved /\ avail_idx = After(saved)
           /\ status = Pending <=> stage # "answered"

\* ... or has returned it.
Returned == AtRest /\ avail_idx = After(saved) /\ status # Pending

Agreement ==
    /\ pc = "reset" => live /\ AtRest
    /\ pc \in {"clear", "start"} => ~live /\ stage = "idle" /\ work = None /\ taken = 0
    /\ pc = "start" => avail_idx = 0 /\ used_idx = 0
    /\ pc \notin {"clear", "start", "reset"} => live
    /\ pc \in {"idle", "describe", "publish"} => AtRest
    /\ pc \in {"describe", "publish"} => saved = used_idx /\ status = Pending
    /\ pc \in {"publish", "notify", "poll"} => writable = (header.op = "read")
    /\ pc \in {"notify", "poll"} => Waiting \/ Working \/ Returned

IInv == TypeOK /\ Agreement
=============================================================================
